---- MODULE Spec2Model ----
(***************************************************************************)
(* Genten sparse-tensor kernels and CP-ALS driver as a state machine.      *)
(*                                                                         *)
(* Arrays keep the zero-based indices of the source: an array of length n  *)
(* is a function on 0..n-1.  Real values are modelled by integers, so all  *)
(* sums and products are exact (no floating-point rounding).               *)
(***************************************************************************)
EXTENDS Integers, Sequences, FiniteSets, TLC

(***************************************************************************)
(* Bounds of the model.                                                    *)
(***************************************************************************)
\* largest nnz of the exhaustively enumerated tensors of SpecRowPtr
MaxNnzRow == 3
\* largest nnz of the exhaustively enumerated tensors of the kernel specs
MaxNnz == 2
\* largest rank R of the exhaustively enumerated K-tensors
MaxRank == 2
\* nnz of the structured large tensors (more than one row block of 128)
BigNnz == 130
\* rank of the structured large K-tensors (more than one rank tile of 32)
BigRank == 33
\* an uninitialised array element holds a value in 0..MaxGarbage
MaxGarbage == 1
\* largest maxIters passed to cpals_core
MaxIters == 3
\* tol is drawn from 0..MaxTol and fit from 0..MaxFit, in units of one
\* tolerance step
MaxTol == 2
MaxFit == 2
\* maxSecs is drawn from -1..MaxSecs, the timer readings from 0..MaxClock
MaxSecs == 1
MaxClock == 2
\* largest perfIter passed to cpals_core
MaxPerfIter == 2

\* xNorm and mNorm are drawn from 0..MaxNorm, xDotm from -MaxDot..MaxDot
MaxNorm == 3
MaxDot == 3
\* the positive values not above DBL_MIN are 1..DenormSteps
DenormSteps == 2

\* longest character stream that is enumerated
MaxStreamLen == 5

\* ttb_indx is an unsigned integer of IndxBits bits
IndxBits == 3
\* the subscript tokens of a data line are 0..MaxToken
MaxToken == 2
\* most data lines of a file, most modes and largest mode size in a header
MaxDataLines == 2
MaxModes == 2
MaxSize == 2

\* most timed iterations of the performance driver (--iters)
MaxDriverIters == 2
\* the largest rank a tile dispatch is made for
MaxTileRank == 130
\* the longest histogram of a DiscreteCDF and the largest total of its entries
MaxCdfLen == 17
MaxCdfVal == 3

\* mode sizes of the tensors that are enumerated
Shapes == { <<3, 2>>, <<2, 2, 2>> }
\* seeds of the value patterns of vals, lambda and the factor matrices
Seeds == {0, 1}

VARIABLES
  is_cuda,    \* build target: ExecSpace is Kokkos::Cuda
  siz,        \* Sptensor::siz, mode sizes, 0..nd-1 -> size
  subs,       \* Sptensor::subs, 0..nnz-1 -> (0..nd-1 -> subscript)
  values,     \* Sptensor::values, 0..nnz-1 -> value
  perm,       \* Sptensor_perm::perm, mode -> (0..nnz-1 -> nonzero index)
  rowptr,     \* Sptensor_row::rowptr, mode -> (0..siz[mode] -> offset)
  filled,     \* fillComplete() has been called on the tensor
  u,          \* Ktensor: [weights: 0..nc-1 -> value, data: mode -> row -> col -> value]
  v,          \* the output FacMatrix of the last mttkrp call
  last,       \* the last kernel call: [op, n, dirty], dirty when the
              \* pre-allocated output held a nonzero entry before the call
  lambda,     \* the weights argument of the last innerprod call
  d,          \* the value returned by the last innerprod call
  args,       \* the arguments of the cpals_core call
  pc,         \* position of the cpals_core call: "idle" (not called), "loop",
              \* "finish" (the loop is left), "returned", "error" (it threw)
  numIters,   \* cpals_core's numIters: loop counter and output argument
  mode,       \* n of the inner loop over the modes
  fit,        \* cpals_core's fit
  fitold,     \* cpals_core's fitold
  elapsed,    \* the last reading of timer.getTotalTime(timer_cpals)
  err,        \* the message of the error cpals_core threw, "none" if none
  uTouched,   \* cpals_core has written to the K-tensor u
  steps,      \* calls completed by the inner loop: [mttkrp, solve, norm, scale, gramian]
  singular,   \* upsilon was singular at the last solve step
  completed,  \* outer iterations that ran to the end of the loop body
  perfInfo,   \* the elements of the caller's perfInfo array cpals_core has
              \* accessed: index -> [nIter, at], at is what wrote the element last
  nNextPerf,  \* cpals_core's nNextPerf
  rn,         \* the last computeResNorm call: its arguments and its outcome
  fIn,        \* an input stream: [open, chars, pos, eof], pos the index of
              \* the next character, eof the stream's eofbit
  content,    \* the getLineContent calls made on fIn: [strs, rets, from], the
              \* str and the return value of each call and the pos it began at
  exported,   \* the last export_sptensor call: [called, X, bStartAtZero, file]
  imported,   \* the last import_sptensor call: [called, file, index_base, out]
  drv,        \* the MTTKRP performance driver: [pc, help, input, tensor_type,
              \* nIters, check, iter, failed, ret, exit], pc the position of main
  kern,       \* a launch of mttkrp_kernel whose team members run
              \* concurrently: [pc, n]
  lanes,      \* its vector lanes: <<i, c>> -> [st, tmp, seen], nonzero i and
              \* column c; st is "todo", "tmp" (tmp(team_index,jj) is
              \* computed) or "done" (added to v); seen = the element of v
              \* when tmp was computed
  pk,         \* a launch of mttkrp_perm_kernel whose row blocks run
              \* concurrently: [pc, n]
  rk,         \* a launch of the row-indexed kernel whose team members run
              \* concurrently: [pc, n]
  rlanes,     \* its vector lanes: <<row, j>> -> [st, k, val, seen], lane j of
              \* the member of row; st is "todo", "loaded" (v.entry(k,j) is
              \* read) or "done" (v.entry(k,j) is written)
  inpl,       \* the call mttkrp(x,u,n) whose output is u[n]'s own storage:
              \* [pc, n, variant, u0, x0, ref], u0 and x0 the K-tensor and
              \* the tensor before the call, ref what the same call leaves
              \* in an output apart from u
  tiling,     \* a tile loop over the columns: [called, kernel, nc, tile, runs],
              \* runs the [j, nj, tmpl] of the calls of run<tmpl>(j, nj) in order
  ctor,       \* the last Sptensor constructor call: [called, which, nd, nz,
              \* input, d0, d1, subs, oob], d0 x d1 the extents subs was
              \* allocated with, oob the (i, j) written outside them
  cdf,        \* the last DiscreteCDF::getRandomSample call: [called, cCDF, r,
              \* ret]
  rpar,       \* createRowPtrImpl's parallel loop for one mode: [pc, n, perm,
              \* todo, rp, count], todo[i] the writes index i has still to
              \* make, rp the entries of rowptr_n written so far, count[k]
              \* the number of writes of rowptr_n(k)
  als,        \* cpals_core's factor data: [pc, nd, maxIters, numIters, n, U,
              \* gamma, upsilon, lam, err]; U[m] is [cols, sq], the matrix
              \* whose column j is cols[j] / sqrt(sq[j]); lam[j] is the
              \* square of lambda[j]; upsilon lists the Gramians multiplied in
  blocks      \* the team members of pk: w -> [todo, loaded, seen, done], todo the
              \* flushes into v still to make, each [row, j, nj, val, atomic];
              \* loaded when a plain store_plus has read its row of v (seen)
              \* and not yet written it; done the flushes made

tensorVars == <<is_cuda, siz, subs, values>>
accelVars == <<perm, rowptr, filled>>
kernelVars == <<tensorVars, accelVars, u, v, last, lambda, d>>

cpalsVars == <<args, pc, numIters, mode, fit, fitold, elapsed, err, uTouched,
               steps, singular, completed, perfInfo, nNextPerf>>

\* the state of the calls outside the kernels and the CP-ALS loop
moreVars == <<inpl, tiling, ctor, cdf, rpar, als>>
parVars == <<pk, blocks, rk, rlanes, moreVars>>
\* the variables of the calls outside the kernels, and of the concurrent launches
ioVars == <<rn, fIn, content, exported, imported>>
launchVars == <<drv, kern, lanes, pk, blocks, rk, rlanes>>
runVars == <<drv, kern, lanes, parVars>>
restVars == <<rn, fIn, content, exported, imported, runVars>>

vars == <<kernelVars, cpalsVars, restVars>>

\* no such call has been made
IdleRest ==
  /\ rn = [called |-> FALSE]
  /\ fIn = [open |-> FALSE, chars |-> << >>, pos |-> 1, eof |-> FALSE]
  /\ content = [strs |-> << >>, rets |-> << >>, from |-> << >>]
  /\ exported = [called |-> FALSE]
  /\ imported = [called |-> FALSE]
  /\ drv = [pc |-> "idle"]
  /\ kern = [pc |-> "idle", n |-> 0]
  /\ lanes = << >>
  /\ pk = [pc |-> "idle", n |-> 0]
  /\ blocks = << >>
  /\ rk = [pc |-> "idle", n |-> 0]
  /\ rlanes = << >>
  /\ inpl = [pc |-> "idle"]
  /\ tiling = [called |-> FALSE]
  /\ ctor = [called |-> FALSE]
  /\ cdf = [called |-> FALSE]
  /\ rpar = [pc |-> "idle"]
  /\ als = [pc |-> "idle"]

(***************************************************************************)
(* Accessors of Sptensor and Ktensor.                                      *)
(***************************************************************************)
ndims == Cardinality(DOMAIN siz)
nnz == Cardinality(DOMAIN values)
ncomponents == Cardinality(DOMAIN u.weights)

ZeroBased(s) == [i \in 0..(Len(s) - 1) |-> s[i + 1]]

\* Loops over index ranges lo..hi-1 are unfolded by halving the range, the
\* left half before the right half, so that the iterations are applied in
\* index order.

\* sum of f[lo], ..., f[hi-1]
RECURSIVE SumRange(_, _, _)
SumRange(f, lo, hi) ==
  IF lo >= hi THEN 0
  ELSE IF hi - lo = 1 THEN f[lo]
  ELSE SumRange(f, lo, (lo + hi) \div 2) + SumRange(f, (lo + hi) \div 2, hi)


\* TRUE of every array or record; comparing it makes each of its entries a
\* computed value.  A loop asks for it on the state it starts from, so that
\* one half of a range is completed before the other half begins
IsStored(f) == f = f

\* FacMatrix(rows, cols) with every entry x; FacMatrix::operator=(ttb_real)
ConstMatrix(rows, cols, x) == [i \in 0..(rows - 1) |-> [j \in 0..(cols - 1) |-> x]]

(***************************************************************************)
(* The inputs: sparse tensors and K-tensors drawn from bounded sets.       *)
(***************************************************************************)
\* all subscript tuples of a tensor with the given mode sizes
SubsTuples(shape) ==
  LET top == CHOOSE x \in {shape[m] : m \in DOMAIN shape} :
               \A m \in DOMAIN shape : shape[m] <= x
  IN { t \in [DOMAIN shape -> 0..(top - 1)] : \A m \in DOMAIN shape : t[m] < shape[m] }

\* value of nonzero k under a seed: nonzero, of both signs for seed 1
ValueOf(seed, k) ==
  IF seed = 0 THEN k + 1 ELSE IF k % 2 = 0 THEN k + 2 ELSE 0 - (k + 2)

\* entry (i,j) of factor matrix m under a seed: seed 1 has zeros and negatives
FacEntry(seed, m, i, j) ==
  IF seed = 0 THEN 1 + ((i + 2 * j + m) % 3) ELSE ((2 * i + j + m) % 3) - 1

\* weight j under a seed
WeightOf(seed, j) == IF seed = 0 THEN j + 1 ELSE 1 + 2 * (j % 2)

\* the K-tensor of rank nc matching the mode sizes
KtensorOf(shape, nc, seed) ==
  [ weights |-> [j \in 0..(nc - 1) |-> WeightOf(seed, j)],
    data |-> [m \in DOMAIN shape |->
                [i \in 0..(shape[m] - 1) |->
                   [j \in 0..(nc - 1) |-> FacEntry(seed, m, i, j)]]] ]

\* subscripts of the structured large tensor
BigSubs(shape, seed) ==
  [k \in 0..(BigNnz - 1) |->
     [m \in DOMAIN shape |-> ((k * (m + 1)) + (k \div 7) + seed) % shape[m]]]

\* no accelerator has been built: perm and rowptr are empty views
NoAccel(shape) == [m \in DOMAIN shape |-> << >>]

\* the state after construction of the tensor and of the K-tensor
InitTensor(maxnnz, maxrank, big) ==
  /\ is_cuda \in BOOLEAN
  /\ \E shape \in Shapes, seed \in Seeds :
       /\ siz = ZeroBased(shape)
       /\ \/ \E nz \in 0..maxnnz, nc \in 1..maxrank :
               /\ subs \in [0..(nz - 1) -> SubsTuples(ZeroBased(shape))]
               /\ values = [k \in 0..(nz - 1) |-> ValueOf(seed, k)]
               /\ u = KtensorOf(ZeroBased(shape), nc, seed)
          \/ /\ big
             /\ subs = BigSubs(ZeroBased(shape), seed)
             /\ values = [k \in 0..(BigNnz - 1) |-> ValueOf(seed, k)]
             /\ u = KtensorOf(ZeroBased(shape), BigRank, seed)
       /\ perm = NoAccel(ZeroBased(shape))
       /\ rowptr = NoAccel(ZeroBased(shape))
  /\ filled = FALSE
  /\ v = << >>
  /\ last = [op |-> "none", n |-> 0, dirty |-> FALSE]
  /\ lambda = << >>
  /\ d = 0
  /\ args = [tol |-> 0, maxIters |-> 0, maxSecs |-> 0, perfIter |-> 0,
             perfInfo |-> "NULL", uConsistent |-> TRUE, ndimsMatch |-> TRUE,
             sizesMatch |-> TRUE]
  /\ pc = "idle"
  /\ numIters = 0
  /\ mode = 0
  /\ fit = 0
  /\ fitold = 0
  /\ elapsed = 0
  /\ err = "none"
  /\ uTouched = FALSE
  /\ steps = [mttkrp |-> 0, solve |-> 0, norm |-> 0, scale |-> 0, gramian |-> 0]
  /\ singular = FALSE
  /\ completed = 0
  /\ perfInfo = << >>
  /\ nNextPerf = 0
  /\ IdleRest


(***************************************************************************)
(* COO MTTKRP: Genten::mttkrp(SptensorT, KtensorT, n, FacMatrixT).         *)
(***************************************************************************)
\* the m-loop of a kernel: tmp *= u[m].entry(subscript(i,m), c) for every
\* mode m >= from other than skip (skip = ndims multiplies every mode in)
RECURSIVE TimesRows(_, _, _, _, _)
TimesRows(tmp, i, c, skip, from) ==
  IF from >= ndims THEN tmp
  ELSE TimesRows(IF from # skip THEN tmp * u.data[from][subs[i][from]][c] ELSE tmp,
                 i, c, skip, from + 1)

\* one tile of one nonzero: columns j..j+nj-1 of tmp are atomically added
\* into row k = subscript(i,n) of v
MTTKRP_KernelBlock_run(vv, i, n, j, nj) ==
  LET k == subs[i][n]
      x_val == values[i]
      tmp(c) == TimesRows(x_val * u.weights[c], i, c, n, 0)
  IN [vv EXCEPT ![k] = [c \in DOMAIN vv[k] |->
                          IF c >= j /\ c < j + nj THEN vv[k][c] + tmp(c)
                          ELSE vv[k][c]]]

\* the tile loop of mttkrp_kernel: full tiles, then one leftover tile
RECURSIVE MttkrpTileLoop(_, _, _, _, _)
MttkrpTileLoop(vv, i, n, j, FacBlockSize) ==
  IF j >= ncomponents THEN vv
  ELSE IF j + FacBlockSize <= ncomponents
       THEN MttkrpTileLoop(MTTKRP_KernelBlock_run(vv, i, n, j, FacBlockSize),
                           i, n, j + FacBlockSize, FacBlockSize)
       ELSE MttkrpTileLoop(MTTKRP_KernelBlock_run(vv, i, n, j, ncomponents - j),
                           i, n, j + FacBlockSize, FacBlockSize)

\* VectorSize and TeamSize of mttkrp_kernel and innerprod_kernel
KernelVectorSize(FacBlockSize) ==
  IF is_cuda THEN (IF FacBlockSize <= 16 THEN FacBlockSize ELSE 16) ELSE 1
KernelTeamSize(FacBlockSize) ==
  IF is_cuda THEN 128 \div KernelVectorSize(FacBlockSize) ELSE 1

\* league size of a TeamPolicy over cnt items in blocks of blk
LeagueSize(cnt, blk) == (cnt + blk - 1) \div blk

\* the body of the parallel_for of mttkrp_kernel for team member w: team
\* w \div TeamSize, rank w % TeamSize; it returns at once when i >= nnz
MttkrpMember(vv, n, w, FacBlockSize, TeamSize) ==
  LET i == (w \div TeamSize) * TeamSize + (w % TeamSize)
  IN IF i >= nnz THEN vv ELSE MttkrpTileLoop(vv, i, n, 0, FacBlockSize)

\* the team members lo..hi-1 of the league
RECURSIVE MttkrpLeague(_, _, _, _, _, _)
MttkrpLeague(vv, n, lo, hi, FacBlockSize, TeamSize) ==
  IF ~IsStored(vv) \/ lo >= hi THEN vv
  ELSE IF hi - lo = 1 THEN MttkrpMember(vv, n, lo, FacBlockSize, TeamSize)
  ELSE MttkrpLeague(MttkrpLeague(vv, n, lo, (lo + hi) \div 2, FacBlockSize, TeamSize),
                    n, (lo + hi) \div 2, hi, FacBlockSize, TeamSize)

mttkrp_kernel(vv, n, FacBlockSize) ==
  LET TeamSize == KernelTeamSize(FacBlockSize)
  IN MttkrpLeague(vv, n, 0, LeagueSize(nnz, TeamSize) * TeamSize, FacBlockSize, TeamSize)

\* the factor block size the dispatchers of mttkrp pick from nc
MttkrpFacBlockSize(nc) ==
  IF nc = 1 THEN 1 ELSE IF nc = 2 THEN 2 ELSE IF nc <= 4 THEN 4
  ELSE IF nc <= 8 THEN 8 ELSE IF nc <= 16 THEN 16 ELSE 32

\* the output left as the caller passed it
KeepOutput(vin) == vin

\* v = 0.0 at the head of each mttkrp
ZeroOutput(vin) == [i \in DOMAIN vin |-> [j \in DOMAIN vin[i] |-> 0]]

\* the whole call on the pre-allocated output vin
mttkrp(n, vin) ==
  mttkrp_kernel(ZeroOutput(vin), n, MttkrpFacBlockSize(ncomponents))


(***************************************************************************)
(* fillComplete() of Sptensor_row: createPermutation(), createRowPtr().    *)
(***************************************************************************)
\* the nonzeros k of lo..hi-1 whose mode-m subscript is r, in increasing order
RECURSIVE RowMembers(_, _, _, _)
RowMembers(m, r, lo, hi) ==
  IF lo >= hi THEN << >>
  ELSE IF hi - lo = 1 THEN (IF subs[lo][m] = r THEN <<lo>> ELSE << >>)
  ELSE RowMembers(m, r, lo, (lo + hi) \div 2) \o RowMembers(m, r, (lo + hi) \div 2, hi)

RECURSIVE SortedFrom(_, _)
SortedFrom(m, r) ==
  IF r >= siz[m] THEN << >> ELSE RowMembers(m, r, 0, nnz) \o SortedFrom(m, r + 1)

\* perm(.,m): the stable sort of 0..nnz-1 keyed on the mode-m subscript
createPermutation == [m \in DOMAIN siz |-> ZeroBased(SortedFrom(m, 0))]

\* rp after rowptr_n(k) = val for every k of lo..hi
WriteRange(rp, lo, hi, val) ==
  [k \in (DOMAIN rp) \cup (lo..hi) |-> IF k \in lo..hi THEN val ELSE rp[k]]

\* the body with the branch i = sz writing from k = sm
createRowPtrBodyFromSm(rp, perm_, n, i, s0) ==
  LET sz == nnz
  IN IF i = 0
     THEN LET s == IF sz = 0 THEN s0 ELSE subs[perm_[n][0]][n]
          IN WriteRange(rp, 0, s, 0)
     ELSE IF i = sz
          THEN LET sm == subs[perm_[n][sz - 1]][n]
               IN WriteRange(rp, sm, siz[n], sz)
          ELSE LET s == subs[perm_[n][i]][n]
                   sm == subs[perm_[n][i - 1]][n]
               IN IF s # sm THEN WriteRange(rp, sm + 1, s, i) ELSE rp

\* the body of the parallel_for of createRowPtrImpl for index i of mode n;
\* rp holds the entries of rowptr_n written so far.  With sz = 0 the index
\* i = 0 reads perm(0,n) of an empty view: s0 is the value that read yields
createRowPtrBody(rp, perm_, n, i, s0) ==
  LET sz == nnz
  IN IF i = 0
     THEN LET s == IF sz = 0 THEN s0 ELSE subs[perm_[n][0]][n]
          IN WriteRange(rp, 0, s, 0)
     ELSE IF i = sz
          THEN LET sm == subs[perm_[n][sz - 1]][n]
               IN WriteRange(rp, sm + 1, siz[n], sz)
          ELSE LET s == subs[perm_[n][i]][n]
                   sm == subs[perm_[n][i - 1]][n]
               IN IF s # sm THEN WriteRange(rp, sm + 1, s, i) ELSE rp

\* the indices lo..hi-1 of the RangePolicy(0, sz+1)
RECURSIVE createRowPtrLoop(_, _, _, _, _, _)
createRowPtrLoop(rp, perm_, n, lo, hi, s0) ==
  IF ~IsStored(rp) \/ lo >= hi THEN rp
  ELSE IF hi - lo = 1 THEN createRowPtrBody(rp, perm_, n, lo, s0)
  ELSE createRowPtrLoop(createRowPtrLoop(rp, perm_, n, lo, (lo + hi) \div 2, s0),
                        perm_, n, (lo + hi) \div 2, hi, s0)

\* the values an out-of-bounds read of perm/subs can yield that keep the
\* writes of the i = 0 branch inside rowptr_n
GarbageSubs(n) == IF nnz = 0 THEN 0..siz[n] ELSE {0}

\* rowptr_n is allocated WithoutInitializing: an entry no index writes keeps
\* an arbitrary value
RowPtrOutcomes(perm_, n) ==
  UNION { LET rp == createRowPtrLoop(<< >>, perm_, n, 0, nnz + 1, s0)
              unwritten == (0..siz[n]) \ DOMAIN rp
          IN { [k \in 0..siz[n] |-> IF k \in DOMAIN rp THEN rp[k] ELSE g[k]] :
                 g \in [unwritten -> 0..MaxGarbage] }
          : s0 \in GarbageSubs(n) }

\* every array of row pointers createRowPtrImpl can return
createRowPtrImpl(perm_) ==
  { rp \in [DOMAIN siz -> UNION { RowPtrOutcomes(perm_, n) : n \in DOMAIN siz }] :
      \A n \in DOMAIN siz : rp[n] \in RowPtrOutcomes(perm_, n) }


(***************************************************************************)
(* Permuted MTTKRP: Genten::mttkrp(SptensorT_perm, ...), mttkrp_perm.      *)
(***************************************************************************)
\* ttb_indx(-1), the row index no nonzero has
invalid_row == -1
\* RowBlockSize of mttkrp_perm_kernel
PermRowBlockSize == 128

\* v.entry(row, j + jj) += val[jj] for jj < nj: atomic_add(&v.entry(row,j), val)
\* when atomic, val.store_plus(&v.entry(row,j)) otherwise
PermFlush(vv, row, j, nj, val, atomic) ==
  [vv EXCEPT ![row] = [c \in DOMAIN vv[row] |->
                         IF c >= j /\ c < j + nj THEN vv[row][c] + val[c - j]
                         ELSE vv[row][c]]]

\* one iteration ii of the row loop of MTTKRP_PermKernelBlock::run; log
\* lists the flushes into v in the order they are made
\* a plain store_plus for every flush inside the row loop
PermFlushNeverAtomic(row_prev, first_row) == FALSE
\* the flush inside the row loop is atomic for the first row of the block
PermFlushAtomic(row_prev, first_row) == row_prev = first_row

PermRunBody(st, i_block, n, j, nj, ii) ==
  LET i == i_block + ii
      p == IF i >= nnz THEN st.p ELSE perm[n][i]
      x_val == IF i >= nnz THEN st.x_val ELSE values[p]
      row == IF i >= nnz THEN invalid_row ELSE subs[p][n]
      first_row == IF ii = 0 THEN row ELSE st.first_row
      flush == row # st.row_prev /\ st.row_prev # invalid_row
      vv1 == IF flush
             THEN PermFlush(st.vv, st.row_prev, j, nj, st.val,
                            PermFlushAtomic(st.row_prev, first_row))
             ELSE st.vv
      log1 == IF flush
              THEN Append(st.log, [row |-> st.row_prev, j |-> j, nj |-> nj, val |-> st.val,
                                   atomic |-> PermFlushAtomic(st.row_prev, first_row)])
              ELSE st.log
      val1 == IF flush THEN [jj \in 0..(nj - 1) |-> 0] ELSE st.val
      val2 == IF row # invalid_row
              THEN [jj \in 0..(nj - 1) |->
                      val1[jj] + TimesRows(x_val * u.weights[j + jj], p, j + jj, n, 0)]
              ELSE val1
  IN [row_prev |-> row, row |-> row, first_row |-> first_row, p |-> p,
      x_val |-> x_val, val |-> val2, vv |-> vv1, log |-> log1]

\* iterations lo..hi-1 of the row loop.  Once i >= nnz with row_prev
\* invalid, every remaining iteration leaves val and v as they are, so the
\* rest of the range is the one iteration lo
RECURSIVE PermRunLoop(_, _, _, _, _, _, _)
PermRunLoop(st, i_block, n, j, nj, lo, hi) ==
  IF ~IsStored(st) \/ lo >= hi THEN st
  ELSE IF hi - lo = 1 \/ (i_block + lo >= nnz /\ st.row_prev = invalid_row)
       THEN PermRunBody(st, i_block, n, j, nj, lo)
       ELSE PermRunLoop(PermRunLoop(st, i_block, n, j, nj, lo, (lo + hi) \div 2),
                        i_block, n, j, nj, (lo + hi) \div 2, hi)

\* the locals of MTTKRP_PermKernelBlock::run before the row loop
PermRunStart(vv, nj) ==
  [row_prev |-> invalid_row, row |-> invalid_row,
   first_row |-> invalid_row, p |-> invalid_row, x_val |-> 0,
   val |-> [jj \in 0..(nj - 1) |-> 0], vv |-> vv, log |-> << >>]

\* MTTKRP_PermKernelBlock::run for the tile j..j+nj-1 of the block at i_block
MTTKRP_PermKernelBlock_run(vv, i_block, n, j, nj) ==
  LET st == PermRunLoop(PermRunStart(vv, nj), i_block, n, j, nj, 0, PermRowBlockSize)
  IN IF st.row # invalid_row
     THEN PermFlush(st.vv, st.row, j, nj, st.val, TRUE)
     ELSE st.vv

\* the flushes MTTKRP_PermKernelBlock::run makes for the tile j..j+nj-1 of
\* the block at i_block, in order: those of the row loop, then the atomic
\* one of the last row
PermBlockLog(i_block, n, j, nj) ==
  LET st == PermRunLoop(PermRunStart(ConstMatrix(siz[n], ncomponents, 0), nj),
                        i_block, n, j, nj, 0, PermRowBlockSize)
  IN IF st.row # invalid_row
     THEN Append(st.log, [row |-> st.row, j |-> j, nj |-> nj, val |-> st.val,
                          atomic |-> TRUE])
     ELSE st.log

RECURSIVE PermTileLoop(_, _, _, _, _)
PermTileLoop(vv, i_block, n, j, FacBlockSize) ==
  IF j >= ncomponents THEN vv
  ELSE IF j + FacBlockSize <= ncomponents
       THEN PermTileLoop(MTTKRP_PermKernelBlock_run(vv, i_block, n, j, FacBlockSize),
                         i_block, n, j + FacBlockSize, FacBlockSize)
       ELSE PermTileLoop(MTTKRP_PermKernelBlock_run(vv, i_block, n, j, ncomponents - j),
                         i_block, n, j + FacBlockSize, FacBlockSize)

\* i_block of team member w
PermIBlock(w, TeamSize) ==
  (w \div TeamSize) * PermRowBlockSize * TeamSize + PermRowBlockSize * (w % TeamSize)

\* the body of the parallel_for for team member w: team w \div TeamSize,
\* rank w % TeamSize, which owns the row block starting at i_block
PermMember(vv, n, w, FacBlockSize, TeamSize) ==
  PermTileLoop(vv, PermIBlock(w, TeamSize), n, 0, FacBlockSize)

\* the flushes of team member w over its tile loop
RECURSIVE PermTileLog(_, _, _, _)
PermTileLog(i_block, n, j, FacBlockSize) ==
  IF j >= ncomponents THEN << >>
  ELSE IF j + FacBlockSize <= ncomponents
       THEN PermBlockLog(i_block, n, j, FacBlockSize)
              \o PermTileLog(i_block, n, j + FacBlockSize, FacBlockSize)
       ELSE PermBlockLog(i_block, n, j, ncomponents - j)
              \o PermTileLog(i_block, n, j + FacBlockSize, FacBlockSize)

\* the team members lo..hi-1 of the league
RECURSIVE PermLeague(_, _, _, _, _, _)
PermLeague(vv, n, lo, hi, FacBlockSize, TeamSize) ==
  IF ~IsStored(vv) \/ lo >= hi THEN vv
  ELSE IF hi - lo = 1 THEN PermMember(vv, n, lo, FacBlockSize, TeamSize)
  ELSE PermLeague(PermLeague(vv, n, lo, (lo + hi) \div 2, FacBlockSize, TeamSize),
                  n, (lo + hi) \div 2, hi, FacBlockSize, TeamSize)

\* TeamSize of mttkrp_perm_kernel<VS>
PermTeamSize(VS) == IF is_cuda THEN 128 \div VS ELSE 1

\* the tile of mttkrp_perm_kernel<VS>: 4, 3, 2 or 1 times VS
PermTile(nc, VS) ==
  IF nc > 3 * VS THEN 4 * VS
  ELSE IF nc > 2 * VS THEN 3 * VS
  ELSE IF nc > VS THEN 2 * VS ELSE VS

\* mttkrp_perm_kernel<VS>
mttkrp_perm_kernel(vv, n, VS) ==
  LET TeamSize == PermTeamSize(VS)
      FacBlockSize == PermTile(ncomponents, VS)
  IN PermLeague(vv, n, 0, LeagueSize(nnz, TeamSize * PermRowBlockSize) * TeamSize,
                FacBlockSize, TeamSize)

\* the VS the dispatcher of mttkrp_perm picks from nc
PermVS(nc) ==
  IF nc >= 96 THEN 32 ELSE IF nc >= 48 THEN 16 ELSE IF nc >= 8 THEN 8
  ELSE IF nc >= 4 THEN 4 ELSE IF nc >= 2 THEN 2 ELSE 1

mttkrp_perm(n, vin) == mttkrp_perm_kernel(ZeroOutput(vin), n, PermVS(ncomponents))

(***************************************************************************)
(* Row-indexed MTTKRP: Genten::mttkrp(SptensorT_row, ...).                 *)
(***************************************************************************)
\* val of column j: the sum over i in lo..hi-1 of tmp
RECURSIVE RowSum(_, _, _, _)
RowSum(n, j, lo, hi) ==
  IF lo >= hi THEN 0
  ELSE IF hi - lo = 1
       THEN TimesRows(values[perm[n][lo]] * u.weights[j], perm[n][lo], j, n, 0)
       ELSE RowSum(n, j, lo, (lo + hi) \div 2) + RowSum(n, j, (lo + hi) \div 2, hi)

\* the team member of one row: v.entry(k,j) += val for every column j
RowKernelBody(vv, n, row) ==
  LET i_begin == rowptr[n][row]
      i_end == rowptr[n][row + 1]
  IN IF i_end = i_begin THEN vv
     ELSE LET k == subs[perm[n][i_begin]][n]
          IN [vv EXCEPT ![k] = [j \in DOMAIN vv[k] |->
                                  vv[k][j] + RowSum(n, j, i_begin, i_end)]]

\* whether the member of a row reads perm only inside 0..nnz-1
RowReadsInside(n, row) ==
  LET i_begin == rowptr[n][row]
      i_end == rowptr[n][row + 1]
  IN i_end = i_begin \/ (i_begin < nnz /\ i_end <= nnz)

\* the largest power of 2 that is <= nc: 2 << int(log2(nc))-1
RECURSIVE LargestPow2(_)
LargestPow2(nc) == IF nc < 2 THEN 1 ELSE 2 * LargestPow2(nc \div 2)

RowVectorSize(nc) ==
  IF nc = 1 THEN 1 ELSE IF LargestPow2(nc) < 64 THEN LargestPow2(nc) ELSE 64
RowTeamSize(nc) == IF is_cuda THEN 128 \div RowVectorSize(nc) ELSE 1

\* the body of the parallel_for for team member w: team w \div TeamSize,
\* rank w % TeamSize; it returns at once when its row is >= Nrow
RowMember(vv, n, w, TeamSize) ==
  LET row == (w \div TeamSize) * TeamSize + (w % TeamSize)
  IN IF row >= siz[n] THEN vv ELSE RowKernelBody(vv, n, row)

\* the team members lo..hi-1 of the league
RECURSIVE RowLeague(_, _, _, _, _)
RowLeague(vv, n, lo, hi, TeamSize) ==
  IF ~IsStored(vv) \/ lo >= hi THEN vv
  ELSE IF hi - lo = 1 THEN RowMember(vv, n, lo, TeamSize)
  ELSE RowLeague(RowLeague(vv, n, lo, (lo + hi) \div 2, TeamSize),
                 n, (lo + hi) \div 2, hi, TeamSize)

\* every output the call can leave: one when all reads are inside the
\* arrays, otherwise the reads past the end of perm make it arbitrary
mttkrp_row(n, vin) ==
  IF \A row \in 0..(siz[n] - 1) : RowReadsInside(n, row)
  THEN { LET TeamSize == RowTeamSize(ncomponents)
         IN RowLeague(ZeroOutput(vin), n, 0, LeagueSize(siz[n], TeamSize) * TeamSize,
                      TeamSize) }
  ELSE { [i \in DOMAIN vin |-> [j \in DOMAIN vin[i] |-> g]] : g \in 0..MaxGarbage }


(***************************************************************************)
(* Inner product: Genten::innerprod(SptensorT, KtensorT, ArrayT lambda).   *)
(***************************************************************************)
\* RowBlockSize of innerprod_kernel
IpRowBlockSize(FacBlockSize) == IF is_cuda THEN KernelTeamSize(FacBlockSize) ELSE 32

\* tmp(ii,jj) with the padding slots holding 1.0 * l[jj] instead of 0.0 * l[jj]
IpTmpPadOne(lam, i, c) ==
  LET s_val == IF i < nnz THEN values[i] ELSE 1
  IN IF i < nnz THEN TimesRows(s_val * lam[c], i, c, ndims, 0) ELSE s_val * lam[c]

\* tmp(ii,jj) of InnerProductKernel::run for slot i and column c = j + jj:
\* a padding slot i >= nnz holds 0.0 * l[jj] and skips the mode loop
IpTmp(lam, i, c) ==
  LET s_val == IF i < nnz THEN values[i] ELSE 0
  IN IF i < nnz THEN TimesRows(s_val * lam[c], i, c, ndims, 0) ELSE s_val * lam[c]

\* the reduction over jj < nj of one slot
RECURSIVE IpSumCols(_, _, _, _)
IpSumCols(lam, i, lo, hi) ==
  IF lo >= hi THEN 0
  ELSE IF hi - lo = 1 THEN IpTmp(lam, i, lo)
  ELSE IpSumCols(lam, i, lo, (lo + hi) \div 2) + IpSumCols(lam, i, (lo + hi) \div 2, hi)

\* InnerProductKernel::run (team kernel): the team reduction over the
\* slots lo..hi-1 of the block, padding slots included
RECURSIVE IpRunTeam(_, _, _, _, _, _)
IpRunTeam(lam, i_block, j, nj, lo, hi) ==
  IF lo >= hi THEN 0
  ELSE IF hi - lo = 1 THEN IpSumCols(lam, i_block + lo, j, j + nj)
  ELSE IpRunTeam(lam, i_block, j, nj, lo, (lo + hi) \div 2)
       + IpRunTeam(lam, i_block, j, nj, (lo + hi) \div 2, hi)

\* InnerProductKernel<...,1,1>::run (TeamSize = VectorSize = 1): val[jj]
\* accumulates the slots i < nnz only, then d += val[jj]
RECURSIVE IpRunSerial(_, _, _, _, _, _)
IpRunSerial(lam, i_block, j, nj, lo, hi) ==
  IF lo >= hi THEN 0
  ELSE IF hi - lo = 1
       THEN (IF i_block + lo < nnz
             THEN SumRange([c \in j..(j + nj - 1) |->
                              TimesRows(values[i_block + lo] * lam[c], i_block + lo, c, ndims, 0)],
                           j, j + nj)
             ELSE 0)
       ELSE IpRunSerial(lam, i_block, j, nj, lo, (lo + hi) \div 2)
            + IpRunSerial(lam, i_block, j, nj, (lo + hi) \div 2, hi)

\* the specialisation is the one instantiated when TeamSize = VectorSize = 1
InnerProductKernel_run(lam, i_block, j, nj, FacBlockSize) ==
  IF KernelTeamSize(FacBlockSize) = 1 /\ KernelVectorSize(FacBlockSize) = 1
  THEN IpRunSerial(lam, i_block, j, nj, 0, IpRowBlockSize(FacBlockSize))
  ELSE IpRunTeam(lam, i_block, j, nj, 0, IpRowBlockSize(FacBlockSize))

\* the tile loop of one team: what the team adds to d
RECURSIVE IpTileLoop(_, _, _, _)
IpTileLoop(lam, i_block, j, FacBlockSize) ==
  IF j >= ncomponents THEN 0
  ELSE (IF j + FacBlockSize <= ncomponents
        THEN InnerProductKernel_run(lam, i_block, j, FacBlockSize, FacBlockSize)
        ELSE InnerProductKernel_run(lam, i_block, j, ncomponents - j, FacBlockSize))
       + IpTileLoop(lam, i_block, j + FacBlockSize, FacBlockSize)

\* the grand reduction over the teams lo..hi-1 of the league
RECURSIVE IpLeague(_, _, _, _)
IpLeague(lam, lo, hi, FacBlockSize) ==
  IF lo >= hi THEN 0
  ELSE IF hi - lo = 1
       THEN IpTileLoop(lam, lo * IpRowBlockSize(FacBlockSize), 0, FacBlockSize)
       ELSE IpLeague(lam, lo, (lo + hi) \div 2, FacBlockSize)
            + IpLeague(lam, (lo + hi) \div 2, hi, FacBlockSize)

innerprod_kernel(lam, FacBlockSize) ==
  IpLeague(lam, 0, LeagueSize(nnz, IpRowBlockSize(FacBlockSize)), FacBlockSize)

\* the factor block size the dispatcher of innerprod picks from nc
IpFacBlockSize(nc) ==
  IF nc = 1 THEN 1 ELSE IF nc = 2 THEN 2 ELSE IF nc <= 4 THEN 4
  ELSE IF nc <= 8 THEN 8 ELSE IF nc <= 16 THEN 16
  ELSE IF nc < 64 \/ ~is_cuda THEN 32 ELSE 64

innerprod(lam) == innerprod_kernel(lam, IpFacBlockSize(ncomponents))


(***************************************************************************)
(* The operations.                                                         *)
(***************************************************************************)
\* the pre-allocated outputs of shape size[n] x nc a caller passes: they
\* hold what an earlier use left, a nonzero value in every entry
PreAllocated(n) == { ConstMatrix(siz[n], ncomponents, g) : g \in 1..MaxGarbage }

IsDirty(vin) == \E i \in DOMAIN vin : \E j \in DOMAIN vin[i] : vin[i][j] # 0

\* X.fillComplete() on a Sptensor_row
FillComplete ==
  /\ perm' = createPermutation
  /\ rowptr' \in createRowPtrImpl(perm')
  /\ filled' = TRUE
  /\ UNCHANGED <<tensorVars, u, v, last, lambda, d, cpalsVars, restVars>>

\* the one fillComplete() a driver makes before it calls the kernels
FillCompleteOnce == ~filled /\ FillComplete

\* mttkrp(X, u, n, v) on the COO view of X
MttkrpCoo ==
  \E n \in DOMAIN siz : \E vin \in PreAllocated(n) :
    /\ v' = mttkrp(n, vin)
    /\ last' = [op |-> "mttkrp", n |-> n, dirty |-> IsDirty(vin)]
    /\ UNCHANGED <<tensorVars, accelVars, u, lambda, d, cpalsVars, restVars>>

\* mttkrp(X, u, n, v) on the Sptensor_perm view, after fillComplete()
MttkrpPerm ==
  /\ filled
  /\ \E n \in DOMAIN siz : \E vin \in PreAllocated(n) :
       /\ v' = mttkrp_perm(n, vin)
       /\ last' = [op |-> "mttkrp_perm", n |-> n, dirty |-> IsDirty(vin)]
       /\ UNCHANGED <<tensorVars, accelVars, u, lambda, d, cpalsVars, restVars>>

\* mttkrp(X, u, n, v) on the Sptensor_row view, after fillComplete()
MttkrpRow ==
  /\ filled
  /\ \E n \in DOMAIN siz : \E vin \in PreAllocated(n) :
       /\ v' \in mttkrp_row(n, vin)
       /\ last' = [op |-> "mttkrp_row", n |-> n, dirty |-> IsDirty(vin)]
       /\ UNCHANGED <<tensorVars, accelVars, u, lambda, d, cpalsVars, restVars>>

\* the weights arguments a caller passes: the K-tensor's own, or all ones
LambdaArgs == { u.weights, [j \in DOMAIN u.weights |-> 1] }

\* d = innerprod(X, u, lambda)
Innerprod ==
  \E lam \in LambdaArgs :
    /\ d' = innerprod(lam)
    /\ lambda' = lam
    /\ last' = [op |-> "innerprod", n |-> 0, dirty |-> FALSE]
    /\ UNCHANGED <<tensorVars, accelVars, u, v, cpalsVars, restVars>>

(***************************************************************************)
(* CP-ALS driver: Genten::cpals_core.  The control flow, the errors and    *)
(* the output argument numIters are modelled; the numerical results (the   *)
(* residual norm, the fit, whether upsilon is singular, whether a column   *)
(* norm is zero) and the timer readings are inputs of each step.           *)
(***************************************************************************)
\* fabs
Abs(x) == IF x < 0 THEN 0 - x ELSE x

\* the arguments a caller can pass; uConsistent, ndimsMatch and sizesMatch
\* say what u.isConsistent(), x.ndims() == u.ndims() and
\* x.size(i) == u[i].nRows() evaluate to
CpalsArgs ==
  [tol : 0..MaxTol, maxIters : 0..MaxIters, maxSecs : (0 - 1)..MaxSecs,
   perfIter : 0..MaxPerfIter, perfInfo : {"NULL", "array"},
   uConsistent : BOOLEAN, ndimsMatch : BOOLEAN, sizesMatch : BOOLEAN]

\* the checks at the head of cpals_core: the message of the first
\* Genten::error they raise, "none" when all pass
CheckArgs(a) ==
  IF ~a.uConsistent THEN "ktensor u is not consistent"
  ELSE IF ~a.ndimsMatch THEN "u and x have different num dims"
  ELSE IF ~a.sizesMatch THEN "u and x have different size"
  ELSE IF a.perfIter > 0 /\ a.perfInfo = "NULL"
       THEN "perfInfo requested but needs to be allocated"
       ELSE "none"

\* what computeResNorm can do: return a residual norm, which gives a fit, or
\* raise "residual norm is negative"
ResNormOutcomes ==
  { [ok |-> TRUE, fit |-> f] : f \in 0..MaxFit } \cup { [ok |-> FALSE, fit |-> 0] }

\* the readings the timer can give after the reading t
Readings(t) == { c \in 0..MaxClock : c >= t }

\* the convergence test without the guard numIters > 0
BreakTestUnguarded(iters, fitchange, tol, maxSecs, time) ==
  (fitchange < tol) \/ ((maxSecs >= 0) /\ (time > maxSecs))

\* the convergence test at the end of the loop body
BreakTest(iters, fitchange, tol, maxSecs, time) ==
  ((iters > 0) /\ (fitchange < tol)) \/ ((maxSecs >= 0) /\ (time > maxSecs))

\* u[n].solveTransposeRHS(upsilon): raises when upsilon is singular
solveTransposeRHS(st, sing) ==
  IF sing THEN [st EXCEPT !.err = "SingularNormalEquations"]
  ELSE [st EXCEPT !.steps.solve = @ + 1]

\* u[n].colNorms(norm, lambda, minimum)
colNorms(st) == [st EXCEPT !.steps.norm = @ + 1]

\* u[n].colScale(lambda, true): raises when a column norm is zero
colScale(st, zeroNorm) ==
  IF zeroNorm THEN [st EXCEPT !.err = "divide-by-zero"]
  ELSE [st EXCEPT !.steps.scale = @ + 1]

\* the body of the inner loop with the error of the solve step swallowed:
\* the steps after it run all the same
ModeBodySolveUnchecked(st, sing, zeroNorm) ==
  LET s1 == [st EXCEPT !.steps.mttkrp = @ + 1]
      s2 == solveTransposeRHS(s1, sing)
      s3 == colNorms(s2)
      s4 == colScale(s3, zeroNorm)
  IN [s4 EXCEPT !.steps.gramian = @ + 1]

\* the body of the inner loop for one mode n: mttkrp, upsilon, solve,
\* column norms, scale, gramian; an exception ends it at the call that raises
ModeBody(st, sing, zeroNorm) ==
  LET s1 == [st EXCEPT !.steps.mttkrp = @ + 1]
      s2 == solveTransposeRHS(s1, sing)
      s3 == IF s2.err # "none" THEN s2 ELSE colNorms(s2)
      s4 == IF s3.err # "none" THEN s3 ELSE colScale(s3, zeroNorm)
  IN IF s4.err # "none" THEN s4 ELSE [s4 EXCEPT !.steps.gramian = @ + 1]

\* perfInfo[i] = e: the array after the write of element i
WritePerf(arr, i, e) == [k \in (DOMAIN arr) \cup {i} |-> IF k = i THEN e ELSE arr[k]]

\* the initialisation of perfInfo: with perfIter > 0 the elements
\* 0..nPossibleInfo-1 are set to -1, nPossibleInfo = 2 + (maxIters / perfIter)
InitPerfInfo(a) ==
  IF a.perfIter > 0
  THEN [i \in 0..((2 + (a.maxIters \div a.perfIter)) - 1) |-> [nIter |-> 0 - 1, at |-> "init"]]
  ELSE << >>

\* the test that guards the entry of the starting point: perfInfo > 0
StartEntryGuard(a) == a.perfInfo # "NULL"

\* an entry after every outer iteration, whatever perfIter is
PerfDueEvery(iters, perfIter) == perfIter > 0

\* the test that guards the entry after the outer iteration numIters = iters
PerfDue(iters, perfIter) == perfIter > 0 /\ (iters + 1) % perfIter = 0

\* cpals_core from its entry to the head of the main loop
CpalsEnter ==
  /\ pc = "idle"
  /\ \E a \in CpalsArgs :
       /\ args' = a
       /\ IF CheckArgs(a) # "none"
          THEN /\ pc' = "error"
               /\ err' = CheckArgs(a)
               /\ UNCHANGED <<numIters, fit, uTouched, perfInfo, nNextPerf>>
          ELSE \* the elements of perfInfo are initialised; u.distribute(0);
               \* the fit of the initial guess is computed and stored in
               \* perfInfo[0] when perfInfo is not NULL
               /\ uTouched' = TRUE
               /\ \E r \in (IF StartEntryGuard(a) THEN ResNormOutcomes
                            ELSE { [ok |-> TRUE, fit |-> 0] }) :
                    IF r.ok
                    THEN /\ fit' = r.fit
                         /\ numIters' = 0
                         /\ pc' = IF 0 < a.maxIters THEN "loop" ELSE "finish"
                         /\ err' = "none"
                         /\ perfInfo' = IF StartEntryGuard(a)
                                        THEN WritePerf(InitPerfInfo(a), 0,
                                                       [nIter |-> 0, at |-> "start"])
                                        ELSE InitPerfInfo(a)
                         /\ nNextPerf' = IF StartEntryGuard(a) THEN 1 ELSE 0
                    ELSE /\ pc' = "error"
                         /\ err' = "residual norm is negative"
                         /\ perfInfo' = InitPerfInfo(a)
                         /\ UNCHANGED <<numIters, fit, nNextPerf>>
  /\ UNCHANGED <<kernelVars, restVars, mode, fitold, elapsed, steps, singular, completed>>

\* one pass of the inner loop: the update of mode n = mode; the first pass
\* of an outer iteration starts with fitold = fit
CpalsModeUpdate ==
  /\ pc = "loop"
  /\ mode < ndims
  /\ \E sing \in BOOLEAN, zeroNorm \in (IF numIters = 0 THEN BOOLEAN ELSE {FALSE}) :
       LET st == ModeBody([err |-> "none", steps |-> steps], sing, zeroNorm)
       IN /\ fitold' = IF mode = 0 THEN fit ELSE fitold
          /\ singular' = sing
          /\ steps' = st.steps
          /\ err' = st.err
          /\ pc' = IF st.err # "none" THEN "error" ELSE "loop"
          /\ mode' = IF st.err # "none" THEN mode ELSE mode + 1
  /\ UNCHANGED <<kernelVars, restVars, args, numIters, fit, elapsed, uTouched, completed,
                 perfInfo, nNextPerf>>

\* the rest of the loop body after the inner loop: model norm, inner product,
\* residual norm, fit, the convergence test, and the loop's numIters++ and
\* numIters < maxIters when the test does not break
CpalsIterEnd ==
  /\ pc = "loop"
  /\ mode = ndims
  /\ \E r \in ResNormOutcomes, t \in Readings(elapsed) :
       IF ~r.ok
       THEN /\ pc' = "error"
            /\ err' = "residual norm is negative"
            /\ UNCHANGED <<numIters, mode, fit, elapsed, completed, perfInfo, nNextPerf>>
       ELSE /\ fit' = r.fit
            /\ IF PerfDue(numIters, args.perfIter)
               THEN /\ perfInfo' = WritePerf(perfInfo, nNextPerf,
                                             [nIter |-> numIters + 1, at |-> "iter"])
                    /\ nNextPerf' = nNextPerf + 1
               ELSE UNCHANGED <<perfInfo, nNextPerf>>
            /\ elapsed' = t
            /\ completed' = completed + 1
            /\ mode' = 0
            /\ err' = err
            /\ IF BreakTest(numIters, Abs(fitold - r.fit), args.tol, args.maxSecs, t)
               THEN /\ numIters' = numIters
                    /\ pc' = "finish"
               ELSE /\ numIters' = numIters + 1
                    /\ pc' = IF numIters + 1 < args.maxIters THEN "loop" ELSE "finish"
  /\ UNCHANGED <<kernelVars, restVars, args, fitold, uTouched, steps, singular>>

\* cpals_core after the main loop: numIters++, the final normalisation of u,
\* return
CpalsFinish ==
  /\ pc = "finish"
  /\ numIters' = numIters + 1
  /\ uTouched' = TRUE
  /\ perfInfo' = IF args.perfIter > 0
                 THEN WritePerf(perfInfo, nNextPerf,
                                [nIter |-> numIters + 1, at |-> "finish"])
                 ELSE perfInfo
  /\ pc' = "returned"
  /\ UNCHANGED <<kernelVars, restVars, args, mode, fit, fitold, elapsed, err, steps,
                 singular, completed, nNextPerf>>

(***************************************************************************)
(* computeResNorm(xNorm, mNorm, xDotm).  The arguments are integers and    *)
(* the arithmetic is exact; nan says that an argument is a NaN, which      *)
(* makes d a NaN and every comparison with it false.                       *)
(***************************************************************************)
\* DBL_MIN, the smallest positive normalised value
DBL_MIN == DenormSteps

\* sqrt(MACHINE_EPSILON) * 1e3 as the fraction <<numerator, denominator>>
SmallNegFactor == <<1, 2>>

\* d > dSmallNegThresh with dSmallNegThresh = -(xDotm * sqrt(eps) * 1e3)
AboveSmallNegThresh(dd, xDotm) ==
  dd * SmallNegFactor[2] > 0 - (xDotm * SmallNegFactor[1])

\* the outcome of the call: sqrt(d), 0.0, or Genten::error
computeResNorm(xNorm, mNorm, xDotm, nan) ==
  LET dd == (xNorm * xNorm) + (mNorm * mNorm) - (2 * xDotm)
  IN IF ~nan /\ dd > DBL_MIN THEN [kind |-> "sqrt", d |-> dd]
     ELSE IF ~nan /\ AboveSmallNegThresh(dd, xDotm) THEN [kind |-> "zero", d |-> dd]
     ELSE [kind |-> "error", d |-> dd]

\* one call of computeResNorm
ComputeResNorm ==
  /\ \E xNorm \in 0..MaxNorm, mNorm \in 0..MaxNorm,
        xDotm \in (0 - MaxDot)..MaxDot, nan \in BOOLEAN :
       rn' = [called |-> TRUE, xNorm |-> xNorm, mNorm |-> mNorm, xDotm |-> xDotm,
              nan |-> nan, out |-> computeResNorm(xNorm, mNorm, xDotm, nan)]
  /\ UNCHANGED <<kernelVars, cpalsVars, fIn, content, exported, imported, runVars>>

(***************************************************************************)
(* Text input: Genten::getLineContent on a stream of characters.           *)
(***************************************************************************)
\* the characters of a stream: a letter, a slash, blank, tab, carriage
\* return and line feed
Chars == {"a", "/", "SP", "TAB", "CR", "LF"}

\* sWhitespace = " \t"
sWhitespace == {"SP", "TAB"}

\* all streams of at most MaxStreamLen characters
Streams == UNION { [1..n -> Chars] : n \in 0..MaxStreamLen }

\* std::getline(fIn, sTmp) from position pos: the characters up to the next
\* line feed, which is consumed; the eofbit is set when the end of the
\* stream is reached before a line feed is found
getline(chars, pos) ==
  LET feeds == { k \in pos..Len(chars) : chars[k] = "LF" }
  IN IF feeds = {}
     THEN [sTmp |-> SubSeq(chars, pos, Len(chars)), pos |-> Len(chars) + 1, eof |-> TRUE]
     ELSE LET k == CHOOSE x \in feeds : \A y \in feeds : x <= y
          IN [sTmp |-> SubSeq(chars, pos, k - 1), pos |-> k + 1, eof |-> FALSE]

\* a line after the trailing '\r' is erased
EraseCR(sTmp) ==
  IF Len(sTmp) > 0 /\ sTmp[Len(sTmp)] = "CR" THEN SubSeq(sTmp, 1, Len(sTmp) - 1) ELSE sTmp

\* sTmp.substr(nBegin, nEnd - nBegin + 1) between the first and the last
\* character that is not white space; empty when there is none
TrimWhitespace(sTmp) ==
  LET solid == { k \in 1..Len(sTmp) : sTmp[k] \notin sWhitespace }
  IN IF solid = {} THEN << >>
     ELSE SubSeq(sTmp, CHOOSE x \in solid : \A y \in solid : x <= y,
                       CHOOSE x \in solid : \A y \in solid : x >= y)

\* str[0] == '/' and str[1] == '/'
IsCommentLine(str) == Len(str) >= 2 /\ str[1] = "/" /\ str[2] = "/"

\* the loop of getLineContent from position pos with nNumLines lines read.
\* On an empty line sTmp.c_str()[nLast-1] reads the byte before the
\* string's characters: stray says that this byte compares equal to '\r',
\* and then sTmp.erase(nLast-1, 1) throws std::out_of_range (ret = -1)
RECURSIVE getLineContentLoop(_, _, _, _)
getLineContentLoop(chars, pos, nNumLines, stray) ==
  LET g == getline(chars, pos)
  IN IF g.eof THEN [str |-> << >>, ret |-> 0, pos |-> g.pos, eof |-> TRUE]
     ELSE IF Len(g.sTmp) = 0 /\ stray
          THEN [str |-> << >>, ret |-> 0 - 1, pos |-> g.pos, eof |-> FALSE]
          ELSE LET str == TrimWhitespace(EraseCR(g.sTmp))
               IN IF Len(str) > 0 /\ ~IsCommentLine(str)
                  THEN [str |-> str, ret |-> nNumLines + 1, pos |-> g.pos, eof |-> FALSE]
                  ELSE getLineContentLoop(chars, g.pos, nNumLines + 1, stray)

\* Genten::getLineContent(fIn, str); a stream whose eofbit is set reads
\* nothing more
getLineContent(f, stray) ==
  IF f.eof THEN [str |-> << >>, ret |-> 0, pos |-> f.pos, eof |-> TRUE]
  ELSE getLineContentLoop(f.chars, f.pos, 0, stray)

\* a stream is opened on a text
OpenStream ==
  /\ ~fIn.open
  /\ \E chars \in Streams :
       fIn' = [open |-> TRUE, chars |-> chars, pos |-> 1, eof |-> FALSE]
  /\ UNCHANGED <<kernelVars, cpalsVars, rn, content, exported, imported, runVars>>

\* one call of getLineContent on the open stream, as long as no call has
\* returned 0 or thrown
GetLineContent ==
  /\ fIn.open
  /\ \A k \in DOMAIN content.rets : content.rets[k] > 0
  /\ \E stray \in BOOLEAN :
       LET r == getLineContent(fIn, stray)
       IN /\ fIn' = [fIn EXCEPT !.pos = r.pos, !.eof = r.eof]
          /\ content' = [strs |-> Append(content.strs, r.str),
                         rets |-> Append(content.rets, r.ret),
                         from |-> Append(content.from, fIn.pos)]
  /\ UNCHANGED <<kernelVars, cpalsVars, rn, exported, imported, runVars>>

(***************************************************************************)
(* Text files of sparse tensors: import_sptensor and export_sptensor.  A   *)
(* file is [lines, terminated]: its content lines, each the sequence of    *)
(* its tokens, and whether the last line ends with a line feed.  A token   *)
(* is [w, n]: the integer n when w = "int", the word w otherwise.         *)
(***************************************************************************)
IntTok(n) == [w |-> "int", n |-> n]
WordTok(word) == [w |-> word, n |-> 0]

\* arithmetic of ttb_indx wraps
IndxModulus == 2 ^ IndxBits
Wrap(x) == x % IndxModulus

\* the lines successive getLineContent calls return before one returns 0:
\* a last line without a line feed is not returned
Delivered(file) ==
  IF file.terminated \/ file.lines = << >> THEN file.lines
  ELSE SubSeq(file.lines, 1, Len(file.lines) - 1)

\* read_positive_ints(fIn, naResult, ...) on the line at index k of the
\* delivered lines, naResult sized to n
read_positive_ints(dl, k, n) ==
  IF k > Len(dl) THEN [ok |-> FALSE, err |-> "cannot read line from file", vals |-> << >>]
  ELSE LET line == dl[k]
       IN IF \E i \in 1..n : i > Len(line) \/ line[i].w # "int"
          THEN [ok |-> FALSE, err |-> "line does not contain enough integers", vals |-> << >>]
          ELSE IF \E i \in 1..n : line[i].n <= 0
          THEN [ok |-> FALSE, err |-> "line must contain positive integers", vals |-> << >>]
          ELSE IF Len(line) > n
          THEN [ok |-> FALSE, err |-> "line contains too many integers", vals |-> << >>]
          ELSE [ok |-> TRUE, err |-> "none", vals |-> [i \in 1..n |-> line[i].n]]

\* sub_row of a data line: std::stol(tokens[i]) - offset in ttb_indx
SubRow(line, nModes, offset) == [i \in 1..nModes |-> Wrap(line[i].n - offset)]

Max(a, b) == IF a >= b THEN a ELSE b

\* the while loop over the data lines k..Len(dl): st = [ok, err, dims, subs,
\* vals, offset]
RECURSIVE ReadNonzeros(_, _, _, _, _, _)
ReadNonzeros(st, dl, k, nModes, offset, compute_dims) ==
  IF k > Len(dl) THEN st
  ELSE IF Len(dl[k]) # nModes + 1
       THEN [st EXCEPT !.ok = FALSE, !.err = "error reading nonzero"]
       ELSE IF \E i \in 1..(nModes + 1) : dl[k][i].w # "int"
            THEN [st EXCEPT !.ok = FALSE, !.err = "std::invalid_argument"]
            ELSE LET sub_row == SubRow(dl[k], nModes, offset)
                     dims == IF compute_dims
                             THEN [i \in 1..nModes |-> Max(st.dims[i], Wrap(sub_row[i] + 1))]
                             ELSE st.dims
                 IN ReadNonzeros([st EXCEPT !.dims = dims, !.subs = Append(@, sub_row),
                                            !.vals = Append(@, dl[k][nModes + 1].n)],
                                 dl, k + 1, nModes, offset, compute_dims)

\* the failed import
ImportError(msg) ==
  [ok |-> FALSE, err |-> msg, dims |-> << >>, subs |-> << >>, vals |-> << >>, offset |-> 0]

\* the offset a header without an index tag leaves: the caller's index_base
UntaggedOffset(index_base) == index_base

\* import_sptensor(fIn, X, index_base) on a file with a header
ImportWithHeader(dl, index_base) ==
  LET tokens == dl[1]
      tagged == Len(tokens) = 2
      naModes == read_positive_ints(dl, 2, 1)
      naSizes == read_positive_ints(dl, 3, naModes.vals[1])
      naNnz == read_positive_ints(dl, 4, 1)
      offset == IF tagged
                THEN (IF tokens[2].w = "indices-start-at-one" THEN 1 ELSE 0)
                ELSE UntaggedOffset(index_base)
  IN IF Len(tokens) > 2 THEN ImportError("bad format for first line")
     ELSE IF tagged /\ tokens[2].w \notin {"indices-start-at-zero", "indices-start-at-one"}
     THEN ImportError("2nd word on first line")
     ELSE IF ~naModes.ok THEN ImportError(naModes.err)
     ELSE IF ~naSizes.ok THEN ImportError(naSizes.err)
     ELSE IF ~naNnz.ok THEN ImportError(naNnz.err)
     ELSE ReadNonzeros([ok |-> TRUE, err |-> "none", dims |-> naSizes.vals,
                        subs |-> << >>, vals |-> << >>, offset |-> offset],
                       dl, 5, naModes.vals[1], offset, FALSE)

\* import_sptensor(fIn, X, index_base) on a file without a header: the
\* first line is the first nonzero
ImportHeaderless(dl, index_base) ==
  LET tokens == dl[1]
      nModes == Len(tokens) - 1
      offset == index_base
      sub_row == SubRow(tokens, nModes, offset)
  IN IF \E i \in 1..Len(tokens) : tokens[i].w # "int"
     THEN ImportError("std::invalid_argument")
     ELSE ReadNonzeros([ok |-> TRUE, err |-> "none",
                        dims |-> [i \in 1..nModes |-> Wrap(sub_row[i] + 1)],
                        subs |-> << sub_row >>, vals |-> << tokens[nModes + 1].n >>,
                        offset |-> offset],
                       dl, 2, nModes, offset, TRUE)

\* Genten::import_sptensor(fIn, X, index_base): [ok, err, dims, subs, offset],
\* X = tensor_type(dims, vals, subs) when ok
import_sptensor(file, index_base) ==
  LET dl == Delivered(file)
  IN IF dl = << >> THEN ImportError("tensor must have at least one nonzero or a header")
     ELSE IF dl[1][1].w = "sptensor" THEN ImportWithHeader(dl, index_base)
     ELSE ImportHeaderless(dl, index_base)

\* Genten::export_sptensor(fOut, X, ..., bStartAtZero): the file written
\* for X = [siz, subs, values], every line ended by endl
export_sptensor(X, bStartAtZero) ==
  LET first == IF bStartAtZero THEN << WordTok("sptensor") >>
               ELSE << WordTok("sptensor"), WordTok("indices-start-at-one") >>
      nd == Len(X.siz)
      sizes == [i \in 1..nd |-> IntTok(X.siz[i])]
      nonzero(k) == [i \in 1..(nd + 1) |->
                       IF i = nd + 1 THEN IntTok(X.values[k])
                       ELSE IF bStartAtZero THEN IntTok(X.subs[k][i])
                       ELSE IntTok(Wrap(X.subs[k][i] + 1))]
  IN [lines |-> << first, << IntTok(nd) >>, sizes, << IntTok(Len(X.subs)) >> >>
                \o [k \in 1..Len(X.subs) |-> nonzero(k)],
      terminated |-> TRUE]

\* the sequences over S of at most n elements
SeqsUpTo(S, n) == UNION { [1..k -> S] : k \in 0..n }

\* the data lines of nModes subscripts and a value
DataLines(nModes) ==
  { [i \in 1..(nModes + 1) |-> IF i = nModes + 1 THEN IntTok(1) ELSE IntTok(t[i])] :
      t \in [1..nModes -> 0..MaxToken] }

\* the first lines of the files with a header
HeaderLines ==
  { << WordTok("sptensor") >> } \cup
  { << WordTok("sptensor"), WordTok(tag) >> :
      tag \in {"indices-start-at-zero", "indices-start-at-one", "indices"} }

\* the files with a header that are read
HeaderFiles ==
  UNION { { [lines |-> << h, << IntTok(nModes) >>, [i \in 1..nModes |-> IntTok(sizes[i])],
                          << IntTok(n) >> >> \o data,
             terminated |-> t] :
            h \in HeaderLines, sizes \in [1..nModes -> 1..MaxSize], n \in 0..MaxDataLines,
            data \in SeqsUpTo(DataLines(nModes), MaxDataLines), t \in BOOLEAN } :
          nModes \in 1..MaxModes }

\* the files without a header that are read
HeaderlessFiles ==
  { [lines |-> data, terminated |-> t] :
      data \in SeqsUpTo(UNION { DataLines(nModes) : nModes \in 1..MaxModes }, MaxDataLines),
      t \in BOOLEAN }

\* the sparse tensors that are exported
ExportTensors ==
  UNION { { [siz |-> sizes, subs |-> sb, values |-> [k \in DOMAIN sb |-> k]] :
            sb \in SeqsUpTo({ t \in [DOMAIN sizes -> 0..(MaxSize - 1)] :
                                \A i \in DOMAIN sizes : t[i] < sizes[i] }, MaxDataLines) } :
          sizes \in UNION { [1..m -> 1..MaxSize] : m \in 1..MaxModes } }

\* import_sptensor is called on a file, once
ImportFile ==
  /\ ~imported.called
  /\ \E file \in HeaderFiles \cup HeaderlessFiles, index_base \in {0, 1} :
       imported' = [called |-> TRUE, file |-> file, index_base |-> index_base,
                    out |-> import_sptensor(file, index_base)]
  /\ UNCHANGED <<kernelVars, cpalsVars, rn, fIn, content, exported, runVars>>

\* export_sptensor is called on a tensor, once
ExportSptensor ==
  /\ ~exported.called
  /\ \E X \in ExportTensors, bStartAtZero \in BOOLEAN :
       exported' = [called |-> TRUE, X |-> X, bStartAtZero |-> bStartAtZero,
                    file |-> export_sptensor(X, bStartAtZero)]
  /\ UNCHANGED <<kernelVars, cpalsVars, rn, fIn, content, imported, runVars>>

\* import_sptensor is called on the file the last export wrote
ImportExported ==
  /\ exported.called
  /\ ~imported.called
  /\ \E index_base \in {0, 1} :
       imported' = [called |-> TRUE, file |-> exported.file, index_base |-> index_base,
                    out |-> import_sptensor(exported.file, index_base)]
  /\ UNCHANGED <<kernelVars, cpalsVars, rn, fIn, content, exported, runVars>>

(***************************************************************************)
(* The MTTKRP performance driver: main and run_mttkrp.                     *)
(***************************************************************************)
\* the value main's handler of a thrown string leaves in ret
CatchRet == 0

\* the exit status of the process for the int main returns
ExitStatus(ret) == ret % 256

\* main up to the call of run_mttkrp: the command line is parsed; --help
\* prints the usage and returns 0
DriverMain ==
  /\ drv.pc = "idle"
  /\ \E help \in BOOLEAN, input \in {"", "file"},
        tensor_type \in {"SPTENSOR", "SPTENSOR_PERM", "SPTENSOR_ROW"},
        nIters \in 1..MaxDriverIters, check \in {0, 1} :
       drv' = [pc |-> IF help THEN "exited" ELSE "load", help |-> help, input |-> input,
               tensor_type |-> tensor_type, nIters |-> nIters, check |-> check,
               iter |-> 0, failed |-> FALSE, ret |-> 0, exit |-> 0]
  /\ UNCHANGED <<kernelVars, cpalsVars, rn, fIn, content, exported, imported, kern, lanes, parVars>>

\* run_mttkrp gets its tensor: import_sptensor of the input file, which
\* raises Genten::error (a thrown string) when the file cannot be read, or
\* genSpFromRndKtensor, whose failure makes run_mttkrp return -1
DriverLoad ==
  /\ drv.pc = "load"
  /\ \E ok \in BOOLEAN :
       drv' = IF ok THEN [drv EXCEPT !.pc = "warmup"]
              ELSE IF drv.input # "" THEN [drv EXCEPT !.pc = "thrown", !.failed = TRUE]
              ELSE [drv EXCEPT !.pc = "finalize", !.failed = TRUE, !.ret = -1]
  /\ UNCHANGED <<kernelVars, cpalsVars, rn, fIn, content, exported, imported, kern, lanes, parVars>>

\* the warm-up pass of mttkrp over the modes and fillComplete()
DriverWarmup ==
  /\ drv.pc = "warmup"
  /\ drv' = [drv EXCEPT !.pc = "iter"]
  /\ UNCHANGED <<kernelVars, cpalsVars, rn, fIn, content, exported, imported, kern, lanes, parVars>>

\* one timed iteration over the modes
DriverIter ==
  /\ drv.pc = "iter"
  /\ drv.iter < drv.nIters
  /\ drv' = [drv EXCEPT !.iter = @ + 1]
  /\ UNCHANGED <<kernelVars, cpalsVars, rn, fIn, content, exported, imported, kern, lanes, parVars>>

\* the report, the comparison with the host computation when check # 0,
\* and return 0 of run_mttkrp
DriverCheck ==
  /\ drv.pc = "iter"
  /\ drv.iter = drv.nIters
  /\ drv' = [drv EXCEPT !.pc = "finalize", !.ret = 0]
  /\ UNCHANGED <<kernelVars, cpalsVars, rn, fIn, content, exported, imported, kern, lanes, parVars>>

\* catch(std::string sExc) of main
DriverCatch ==
  /\ drv.pc = "thrown"
  /\ drv' = [drv EXCEPT !.pc = "finalize", !.ret = CatchRet]
  /\ UNCHANGED <<kernelVars, cpalsVars, rn, fIn, content, exported, imported, kern, lanes, parVars>>

\* Kokkos::finalize(); return ret;
DriverExit ==
  /\ drv.pc = "finalize"
  /\ drv' = [drv EXCEPT !.pc = "exited", !.exit = ExitStatus(drv.ret)]
  /\ UNCHANGED <<kernelVars, cpalsVars, rn, fIn, content, exported, imported, kern, lanes, parVars>>

(***************************************************************************)
(* mttkrp_kernel with its team members running concurrently: every lane    *)
(* (nonzero i, column c) computes tmp and then adds it to v.entry(k,c).    *)
(***************************************************************************)
\* a plain load and store: tmp is added to the value loaded earlier
plain_add(cur, seen, tmp) == seen + tmp
\* Kokkos::atomic_add(v_kj+jj, tmp): one indivisible read-modify-write of
\* the element, whose current value is cur
atomic_add(cur, seen, tmp) == cur + tmp

\* mttkrp zeroes v and launches the kernel for mode n
KernelLaunch ==
  /\ kern.pc = "idle"
  /\ \E n \in DOMAIN siz :
       /\ kern' = [pc |-> "running", n |-> n]
       /\ v' = ZeroOutput(ConstMatrix(siz[n], ncomponents, 0))
  /\ lanes' = [l \in (DOMAIN values) \X (DOMAIN u.weights) |->
                 [st |-> "todo", tmp |-> 0, seen |-> 0]]
  /\ UNCHANGED <<tensorVars, accelVars, u, last, lambda, d, cpalsVars,
                 rn, fIn, content, exported, imported, drv, parVars>>

\* lane (i, c): tmp = x_val * l[jj], times the rows of the other modes
LaneTmp(i, c) ==
  /\ kern.pc = "running"
  /\ lanes[<<i, c>>].st = "todo"
  /\ lanes' = [lanes EXCEPT ![<<i, c>>] =
                 [st |-> "tmp",
                  tmp |-> TimesRows(values[i] * u.weights[c], i, c, kern.n, 0),
                  seen |-> v[subs[i][kern.n]][c]]]
  /\ UNCHANGED <<kernelVars, cpalsVars, rn, fIn, content, exported, imported, drv, kern, parVars>>

\* lane (i, c): Kokkos::atomic_add(v_kj+jj, tmp(team_index,jj))
LaneAdd(i, c) ==
  /\ kern.pc = "running"
  /\ lanes[<<i, c>>].st = "tmp"
  /\ LET k == subs[i][kern.n]
         l == lanes[<<i, c>>]
     IN v' = [v EXCEPT ![k][c] = atomic_add(v[k][c], l.seen, l.tmp)]
  /\ lanes' = [lanes EXCEPT ![<<i, c>>].st = "done"]
  /\ UNCHANGED <<tensorVars, accelVars, u, last, lambda, d, cpalsVars,
                 rn, fIn, content, exported, imported, drv, kern, parVars>>

\* the parallel_for ends when every team member has finished
KernelReturn ==
  /\ kern.pc = "running"
  /\ \A l \in DOMAIN lanes : lanes[l].st = "done"
  /\ kern' = [kern EXCEPT !.pc = "returned"]
  /\ UNCHANGED <<kernelVars, cpalsVars, rn, fIn, content, exported, imported, drv, lanes, parVars>>

(***************************************************************************)
(* mttkrp_perm_kernel with its row blocks running concurrently.  A step is *)
(* one flush of one team member: an atomic_add is one step, a plain        *)
(* store_plus reads its row of v in one step and writes it in another.     *)
(***************************************************************************)
\* the team members of a launch
PermMembers == 0..(LeagueSize(nnz, PermTeamSize(PermVS(ncomponents)) * PermRowBlockSize)
                     * PermTeamSize(PermVS(ncomponents)) - 1)

\* mttkrp zeroes v and launches the kernel for mode n
PermLaunch ==
  /\ filled
  /\ pk.pc = "idle"
  /\ \E n \in DOMAIN siz :
       /\ pk' = [pc |-> "running", n |-> n]
       /\ v' = ZeroOutput(ConstMatrix(siz[n], ncomponents, 0))
       /\ blocks' = [w \in PermMembers |->
                      [todo |-> PermTileLog(PermIBlock(w, PermTeamSize(PermVS(ncomponents))),
                                            n, 0, PermTile(ncomponents, PermVS(ncomponents))),
                       loaded |-> FALSE, seen |-> << >>, done |-> << >>]]
  /\ UNCHANGED <<tensorVars, accelVars, u, last, lambda, d, cpalsVars,
                 rn, fIn, content, exported, imported, drv, kern, lanes, rk, rlanes, moreVars>>

\* val.store_plus(&v.entry(row,j)) with the row of v read earlier
StorePlus(vv, f, seen) ==
  [vv EXCEPT ![f.row] = [c \in DOMAIN vv[f.row] |->
                           IF c >= f.j /\ c < f.j + f.nj THEN seen[c] + f.val[c - f.j]
                           ELSE vv[f.row][c]]]

\* team member w makes its next flush, a Kokkos::atomic_add
BlockAtomicAdd(w) ==
  /\ pk.pc = "running"
  /\ blocks[w].todo # << >>
  /\ Head(blocks[w].todo).atomic
  /\ LET f == Head(blocks[w].todo)
     IN /\ v' = PermFlush(v, f.row, f.j, f.nj, f.val, TRUE)
        /\ blocks' = [blocks EXCEPT ![w].todo = Tail(@), ![w].done = Append(@, f)]
  /\ UNCHANGED <<tensorVars, accelVars, u, last, lambda, d, cpalsVars,
                 rn, fIn, content, exported, imported, drv, kern, lanes, pk, rk, rlanes, moreVars>>

\* team member w begins its next flush, a store_plus: it reads the row
BlockLoad(w) ==
  /\ pk.pc = "running"
  /\ blocks[w].todo # << >>
  /\ ~Head(blocks[w].todo).atomic
  /\ ~blocks[w].loaded
  /\ blocks' = [blocks EXCEPT ![w].loaded = TRUE, ![w].seen = v[Head(blocks[w].todo).row]]
  /\ UNCHANGED <<kernelVars, cpalsVars, rn, fIn, content, exported, imported,
                 drv, kern, lanes, pk, rk, rlanes, moreVars>>

\* team member w ends the store_plus: it writes the row
BlockStore(w) ==
  /\ pk.pc = "running"
  /\ blocks[w].loaded
  /\ LET f == Head(blocks[w].todo)
     IN /\ v' = StorePlus(v, f, blocks[w].seen)
        /\ blocks' = [blocks EXCEPT ![w].todo = Tail(@), ![w].done = Append(@, f),
                                     ![w].loaded = FALSE, ![w].seen = << >>]
  /\ UNCHANGED <<tensorVars, accelVars, u, last, lambda, d, cpalsVars,
                 rn, fIn, content, exported, imported, drv, kern, lanes, pk, rk, rlanes, moreVars>>

\* the parallel_for ends when every team member has finished
PermReturn ==
  /\ pk.pc = "running"
  /\ \A w \in DOMAIN blocks : blocks[w].todo = << >>
  /\ pk' = [pk EXCEPT !.pc = "returned"]
  /\ UNCHANGED <<kernelVars, cpalsVars, rn, fIn, content, exported, imported,
                 drv, kern, lanes, blocks, rk, rlanes, moreVars>>

(***************************************************************************)
(* The row-indexed kernel with its team members running concurrently.      *)
(* v.entry(k,j) += val is a plain add: a lane reads the entry in one step  *)
(* and writes it in another.                                               *)
(***************************************************************************)
\* the rows whose team member goes on past `if (i_end == i_begin) return`
RowsAtWork(n) == { row \in 0..(siz[n] - 1) : rowptr[n][row + 1] # rowptr[n][row] }

\* the k of the team member of a row: X.subscript(X.getPerm(i_begin,n),n),
\* any row when i_begin is outside perm
RowTargets(n, row) ==
  IF rowptr[n][row] < nnz THEN { subs[perm[n][rowptr[n][row]]][n] }
  ELSE 0..(siz[n] - 1)

\* the val a lane adds: the sum over i_begin..i_end-1, the arbitrary g
\* when the range leaves perm
RowVal(n, row, j, g) ==
  IF RowReadsInside(n, row) THEN RowSum(n, j, rowptr[n][row], rowptr[n][row + 1])
  ELSE g

\* mttkrp zeroes v and launches the kernel for mode n
RowLaunch ==
  /\ filled
  /\ rk.pc = "idle"
  /\ \E n \in DOMAIN siz :
       /\ rk' = [pc |-> "running", n |-> n]
       /\ v' = ZeroOutput(ConstMatrix(siz[n], ncomponents, 0))
       /\ \E k \in [RowsAtWork(n) -> 0..(siz[n] - 1)], g \in 0..MaxGarbage :
            /\ \A row \in RowsAtWork(n) : k[row] \in RowTargets(n, row)
            /\ rlanes' = [l \in RowsAtWork(n) \X (DOMAIN u.weights) |->
                            [st |-> "todo", k |-> k[l[1]],
                             val |-> RowVal(n, l[1], l[2], g), seen |-> 0]]
  /\ UNCHANGED <<tensorVars, accelVars, u, last, lambda, d, cpalsVars,
                 rn, fIn, content, exported, imported, drv, kern, lanes, pk, blocks, moreVars>>

\* lane (row, j) reads v.entry(k,j)
RowLaneLoad(row, j) ==
  /\ rk.pc = "running"
  /\ rlanes[<<row, j>>].st = "todo"
  /\ rlanes' = [rlanes EXCEPT ![<<row, j>>].st = "loaded",
                              ![<<row, j>>].seen = v[rlanes[<<row, j>>].k][j]]
  /\ UNCHANGED <<kernelVars, cpalsVars, rn, fIn, content, exported, imported,
                 drv, kern, lanes, pk, blocks, rk, moreVars>>

\* lane (row, j) writes v.entry(k,j)
RowLaneStore(row, j) ==
  /\ rk.pc = "running"
  /\ rlanes[<<row, j>>].st = "loaded"
  /\ LET l == rlanes[<<row, j>>]
     IN v' = [v EXCEPT ![l.k][j] = l.seen + l.val]
  /\ rlanes' = [rlanes EXCEPT ![<<row, j>>].st = "done"]
  /\ UNCHANGED <<tensorVars, accelVars, u, last, lambda, d, cpalsVars,
                 rn, fIn, content, exported, imported, drv, kern, lanes, pk, blocks, rk, moreVars>>

\* the parallel_for ends when every team member has finished
RowReturn ==
  /\ rk.pc = "running"
  /\ \A l \in DOMAIN rlanes : rlanes[l].st = "done"
  /\ rk' = [rk EXCEPT !.pc = "returned"]
  /\ UNCHANGED <<kernelVars, cpalsVars, rn, fIn, content, exported, imported,
                 drv, kern, lanes, pk, blocks, rlanes, moreVars>>

(***************************************************************************)
(* mttkrp(x, u, n) of cpals_core: the output v is u[n]'s own storage.      *)
(***************************************************************************)
\* the views of X a call can make: perm and row need fillComplete()
InPlaceVariants == IF filled THEN {"coo", "perm", "row"} ELSE {"coo"}

\* what the kernel of a view leaves in the output vin, in the current state
VariantOutcomes(variant, n, vin) ==
  IF variant = "coo" THEN { mttkrp(n, vin) }
  ELSE IF variant = "perm" THEN { mttkrp_perm(n, vin) }
  ELSE mttkrp_row(n, vin)

\* the head of the call: v = 0 zeroes u[n]
InPlaceEnter ==
  /\ inpl.pc = "idle"
  /\ \E n \in DOMAIN siz, variant \in InPlaceVariants :
       \E ref \in VariantOutcomes(variant, n, u.data[n]) :
         inpl' = [pc |-> "zeroed", n |-> n, variant |-> variant, u0 |-> u, ref |-> ref,
                  x0 |-> <<siz, subs, values, perm, rowptr>>]
  /\ u' = [u EXCEPT !.data[inpl'.n] = ZeroOutput(u.data[inpl'.n])]
  /\ UNCHANGED <<tensorVars, accelVars, v, last, lambda, d, cpalsVars, ioVars,
                 launchVars, tiling, ctor, cdf, rpar, als>>

\* the kernel runs on u and adds into u[n]
InPlaceKernel ==
  /\ inpl.pc = "zeroed"
  /\ \E r \in VariantOutcomes(inpl.variant, inpl.n, u.data[inpl.n]) :
       u' = [u EXCEPT !.data[inpl.n] = r]
  /\ inpl' = [inpl EXCEPT !.pc = "done"]
  /\ UNCHANGED <<tensorVars, accelVars, v, last, lambda, d, cpalsVars, ioVars,
                 launchVars, tiling, ctor, cdf, rpar, als>>

(***************************************************************************)
(* cpals_core's factor data: the Gramians gamma, upsilon and lambda.       *)
(* Entries are exact: a factor matrix is kept as integer columns with the  *)
(* square of each column's divisor, a norm as its square.                  *)
(***************************************************************************)
\* the columns a factor matrix can have: zero, all ones, or 1, -2, -2, ...
AlsCol(kind) ==
  [i \in 0..(MaxSize - 1) |->
     IF kind = "zero" THEN 0 ELSE IF kind = "ones" \/ i = 0 THEN 1 ELSE 0 - 2]
AlsMatrices == [0..(MaxRank - 1) -> { AlsCol(k) : k \in {"zero", "ones", "mix"} }]

\* a matrix as it is before any scaling
Unscaled(S) == [cols |-> S, sq |-> [j \in DOMAIN S |-> 1]]

SumSq(col) == SumRange([i \in DOMAIN col |-> col[i] * col[i]], 0, MaxSize)
MaxAbs(col) ==
  CHOOSE m \in { Abs(col[i]) : i \in DOMAIN col } : \A i \in DOMAIN col : Abs(col[i]) <= m

\* FacMatrix::colNorms(kind, norms, minval) on an unscaled matrix: the
\* squares of the column norms, a norm below minval replaced by minval
colNormsSq(kind, minval, S) ==
  [j \in DOMAIN S |->
     LET nrm2 == IF kind = "NormTwo" THEN SumSq(S[j]) ELSE MaxAbs(S[j]) * MaxAbs(S[j])
     IN IF nrm2 < minval * minval THEN minval * minval ELSE nrm2]

\* the L2 norm without a floor in every outer iteration
NormArgsTwoAlways(iters) == [kind |-> "NormTwo", minval |-> 0]

\* the arguments of the norm step of outer iteration iters
NormArgs(iters) ==
  IF iters = 0 THEN [kind |-> "NormTwo", minval |-> 0]
  ELSE [kind |-> "NormInf", minval |-> 1]

\* FacMatrix::gramian(F): F^T F, entry (j, k) kept as num[j][k] / sqrt(den[j][k])
gramian(F) ==
  [init |-> TRUE,
   num |-> [j \in DOMAIN F.cols |-> [k \in DOMAIN F.cols |->
              SumRange([i \in 0..(MaxSize - 1) |-> F.cols[j][i] * F.cols[k][i]], 0, MaxSize)]],
   den |-> [j \in DOMAIN F.cols |-> [k \in DOMAIN F.cols |-> F.sq[j] * F.sq[k]]]]

\* gamma[n] = FacMatrix(nc, nc): allocated, not yet a Gramian
GammaAllocated ==
  [init |-> FALSE,
   num |-> [j \in 0..(MaxRank - 1) |-> [k \in 0..(MaxRank - 1) |-> 0]],
   den |-> [j \in 0..(MaxRank - 1) |-> [k \in 0..(MaxRank - 1) |-> 1]]]

\* gamma[n] is left as it is
GramianKeep(g, n, F) == g

\* gamma[n].gramian(u[n])
GramianUpdate(g, n, F) == [g EXCEPT ![n] = gramian(F)]

\* the two loops before the main loop: every gamma[n] allocated, then
\* gamma[n].gramian(u[n]) for n = 1, ..., nd-1
GammaInit(U) ==
  [m \in DOMAIN U |-> IF m >= 1 THEN gramian(U[m]) ELSE GammaAllocated]

\* upsilon = 1, then upsilon.times(gamma[idx]) for every idx # n in order
RECURSIVE UpsilonLoop(_, _, _, _)
UpsilonLoop(g, n, idx, ups) ==
  IF idx >= Cardinality(DOMAIN g) THEN ups
  ELSE UpsilonLoop(g, n, idx + 1,
                   IF idx # n THEN Append(ups, [idx |-> idx, g |-> g[idx]]) ELSE ups)

AlsRest == <<kernelVars, cpalsVars, ioVars, launchVars, inpl, tiling, ctor, cdf, rpar>>

\* cpals_core up to the main loop, for a K-tensor u and maxIters >= 1
AlsEnter ==
  /\ als.pc = "idle"
  /\ \E nd \in 1..MaxModes, maxIters \in 1..MaxIters :
       \E U \in [0..(nd - 1) -> AlsMatrices] :
         als' = [pc |-> "mttkrp", nd |-> nd, maxIters |-> maxIters, numIters |-> 0,
                 n |-> 0, U |-> [m \in 0..(nd - 1) |-> Unscaled(U[m])],
                 gamma |-> GammaInit([m \in 0..(nd - 1) |-> Unscaled(U[m])]),
                 upsilon |-> << >>, lam |-> [j \in 0..(MaxRank - 1) |-> 1],
                 err |-> "none"]
  /\ UNCHANGED AlsRest

\* Genten::mttkrp(x, u, n): u[n] is overwritten
AlsMttkrp ==
  /\ als.pc = "mttkrp"
  /\ \E S \in AlsMatrices :
       als' = [als EXCEPT !.pc = "upsilon", !.U[als.n] = Unscaled(S)]
  /\ UNCHANGED AlsRest

\* the matrix of coefficients of the solve step
AlsUpsilon ==
  /\ als.pc = "upsilon"
  /\ als' = [als EXCEPT !.pc = "solve",
                        !.upsilon = UpsilonLoop(als.gamma, als.n, 0, << >>)]
  /\ UNCHANGED AlsRest

\* u[n].solveTransposeRHS(upsilon): u[n] is overwritten with the solution
AlsSolve ==
  /\ als.pc = "solve"
  /\ \E S \in AlsMatrices :
       als' = [als EXCEPT !.pc = "norm", !.U[als.n] = Unscaled(S)]
  /\ UNCHANGED AlsRest

\* u[n].colNorms(..., lambda, ...)
AlsNorm ==
  /\ als.pc = "norm"
  /\ als' = [als EXCEPT !.pc = "scale",
                        !.lam = colNormsSq(NormArgs(als.numIters).kind,
                                           NormArgs(als.numIters).minval,
                                           als.U[als.n].cols)]
  /\ UNCHANGED AlsRest

\* u[n].colScale(lambda, true): raises when a column's norm is zero
AlsScale ==
  /\ als.pc = "scale"
  /\ als' = IF \E j \in DOMAIN als.lam : als.lam[j] = 0
            THEN [als EXCEPT !.pc = "error", !.err = "divide-by-zero"]
            ELSE [als EXCEPT !.pc = "gramian", !.U[als.n].sq = als.lam]
  /\ UNCHANGED AlsRest

\* gamma[n].gramian(u[n]) and the inner loop's n++
AlsGramian ==
  /\ als.pc = "gramian"
  /\ als' = [als EXCEPT !.pc = IF als.n + 1 < als.nd THEN "mttkrp" ELSE "pnorm",
                        !.n = als.n + 1,
                        !.gamma = GramianUpdate(als.gamma, als.n, als.U[als.n])]
  /\ UNCHANGED AlsRest

\* the model norm: upsilon.times(gamma[nd-1])
AlsModelNorm ==
  /\ als.pc = "pnorm"
  /\ als' = [als EXCEPT !.pc = "fit",
                        !.upsilon = Append(als.upsilon, [idx |-> als.nd - 1,
                                                         g |-> als.gamma[als.nd - 1]])]
  /\ UNCHANGED AlsRest

\* the end of the loop body: the test breaks (brk), or numIters++ and the
\* loop's test numIters < maxIters
AlsIterEnd ==
  /\ als.pc = "fit"
  /\ \E brk \in BOOLEAN :
       als' = IF brk \/ ~(als.numIters + 1 < als.maxIters)
              THEN [als EXCEPT !.pc = "done"]
              ELSE [als EXCEPT !.pc = "mttkrp", !.n = 0, !.numIters = als.numIters + 1]
  /\ UNCHANGED AlsRest

(***************************************************************************)
(* createRowPtrImpl's parallel_for with its indices running concurrently.  *)
(***************************************************************************)
RowPtrRest == <<kernelVars, cpalsVars, ioVars, launchVars, inpl, tiling, ctor, cdf, als>>

\* the parallel_for over the RangePolicy(0, sz+1) of mode n starts, on the
\* permutation createPermutation() has made
RowPtrLaunch ==
  /\ rpar.pc = "idle"
  /\ \E n \in DOMAIN siz : \E s0 \in GarbageSubs(n) :
       rpar' = [pc |-> "running", n |-> n, perm |-> createPermutation,
                todo |-> [i \in 0..nnz |->
                            createRowPtrBody(<< >>, createPermutation, n, i, s0)],
                rp |-> << >>,
                count |-> [k \in 0..siz[n] |-> 0]]
  /\ UNCHANGED RowPtrRest

\* index i makes the next write of its for-loop: rowptr_n(k) = val
RowPtrWrite(i) ==
  /\ rpar.pc = "running"
  /\ DOMAIN rpar.todo[i] # {}
  /\ LET k == CHOOSE k \in DOMAIN rpar.todo[i] : \A k2 \in DOMAIN rpar.todo[i] : k <= k2
     IN rpar' = [rpar EXCEPT
                   !.todo[i] = [k2 \in (DOMAIN rpar.todo[i]) \ {k} |-> rpar.todo[i][k2]],
                   !.rp = WriteRange(rpar.rp, k, k, rpar.todo[i][k]),
                   !.count[k] = @ + 1]
  /\ UNCHANGED RowPtrRest

\* every index has finished: rowptr(n) = rowptr_n
RowPtrReturn ==
  /\ rpar.pc = "running"
  /\ \A i \in DOMAIN rpar.todo : DOMAIN rpar.todo[i] = {}
  /\ rpar' = [rpar EXCEPT !.pc = "returned"]
  /\ UNCHANGED RowPtrRest

(***************************************************************************)
(* The tile loops over the rank: for (j = 0; j < nc; j += FacBlockSize).   *)
(***************************************************************************)
\* the loop with the test j + FacBlockSize < nc
RECURSIVE TileRunsStrict(_, _, _)
TileRunsStrict(nc, j, FacBlockSize) ==
  IF j >= nc THEN << >>
  ELSE IF j + FacBlockSize < nc
       THEN <<[j |-> j, nj |-> FacBlockSize, tmpl |-> FacBlockSize]>>
              \o TileRunsStrict(nc, j + FacBlockSize, FacBlockSize)
       ELSE <<[j |-> j, nj |-> nc - j, tmpl |-> 0]>>
              \o TileRunsStrict(nc, j + FacBlockSize, FacBlockSize)

\* the calls the tile loop makes from column j on: run<FacBlockSize>(j,
\* FacBlockSize) for a full tile, run<0>(j, nc-j) for the leftover
RECURSIVE TileRuns(_, _, _)
TileRuns(nc, j, FacBlockSize) ==
  IF j >= nc THEN << >>
  ELSE IF j + FacBlockSize <= nc
       THEN <<[j |-> j, nj |-> FacBlockSize, tmpl |-> FacBlockSize]>>
              \o TileRuns(nc, j + FacBlockSize, FacBlockSize)
       ELSE <<[j |-> j, nj |-> nc - j, tmpl |-> 0]>>
              \o TileRuns(nc, j + FacBlockSize, FacBlockSize)

\* the compile-time tile the dispatcher of a kernel selects for rank nc
TileOf(kernel, nc) ==
  IF kernel = "mttkrp" THEN MttkrpFacBlockSize(nc)
  ELSE IF kernel = "mttkrp_perm" THEN PermTile(nc, PermVS(nc))
  ELSE IpFacBlockSize(nc)

\* one dispatch on the rank nc and the tile loop of one team
TileDispatch ==
  /\ ~tiling.called
  /\ \E kernel \in {"mttkrp", "mttkrp_perm", "innerprod"}, nc \in 1..MaxTileRank :
       tiling' = [called |-> TRUE, kernel |-> kernel, nc |-> nc,
                  tile |-> TileOf(kernel, nc),
                  runs |-> TileRuns(nc, 0, TileOf(kernel, nc))]
  /\ UNCHANGED <<kernelVars, cpalsVars, ioVars, launchVars, inpl, ctor, cdf, rpar, als>>

(***************************************************************************)
(* The constructors of Sptensor from arrays of subscripts.                 *)
(***************************************************************************)
\* the extents of subs("Genten::Sptensor::subs", ., .) in each constructor
AllocSubs(which, nz, nd) ==
  IF which = "indx" THEN [d0 |-> nd, d1 |-> nz] ELSE [d0 |-> nz, d1 |-> nd]

\* the value a constructor assigns to subs(i,j): one-based column-major
\* reals, zero-based row-major indices, or a vector of vectors
SubsInput(which, input, i, j, nz, nd) ==
  IF which = "real" THEN input[i + j * nz] - 1 ELSE input[i * nd + j]

\* the arrays of subscripts a caller can pass for nz nonzeros of nd modes
SubsArrays(which, nz, nd) ==
  [0..(nz * nd - 1) -> IF which = "real" THEN 1..MaxSize ELSE 0..(MaxSize - 1)]

\* the view after the loops over i < nz, j < nd when every write is inside
\* the extents: zero where nothing was written
SubsWritten(which, input, nz, nd) ==
  LET a == AllocSubs(which, nz, nd)
  IN [e \in (0..(a.d0 - 1)) \X (0..(a.d1 - 1)) |->
        IF e[1] < nz /\ e[2] < nd THEN SubsInput(which, input, e[1], e[2], nz, nd) ELSE 0]

\* the (i, j) of the loops that are outside the extents
SubsOutside(which, nz, nd) ==
  LET a == AllocSubs(which, nz, nd)
  IN { e \in (0..(nz - 1)) \X (0..(nd - 1)) : ~(e[1] < a.d0 /\ e[2] < a.d1) }

\* what the view can hold afterwards: a write outside the extents is
\* undefined, it can land on any entry of the view
SubsOutcomes(which, input, nz, nd) ==
  LET a == AllocSubs(which, nz, nd)
  IN IF SubsOutside(which, nz, nd) = {} THEN { SubsWritten(which, input, nz, nd) }
     ELSE [(0..(a.d0 - 1)) \X (0..(a.d1 - 1)) -> 0..(MaxSize - 1)]

\* one constructor call
Construct ==
  /\ ~ctor.called
  /\ \E which \in {"real", "indx", "vector"}, nd \in 1..MaxModes, nz \in 0..MaxNnz :
       \E input \in SubsArrays(which, nz, nd) :
         \E sb \in SubsOutcomes(which, input, nz, nd) :
           ctor' = [called |-> TRUE, which |-> which, nd |-> nd, nz |-> nz,
                    input |-> input,
                    d0 |-> AllocSubs(which, nz, nd).d0,
                    d1 |-> AllocSubs(which, nz, nd).d1,
                    subs |-> sb,
                    oob |-> SubsOutside(which, nz, nd)]
  /\ UNCHANGED <<kernelVars, cpalsVars, ioVars, launchVars, inpl, tiling, cdf, rpar, als>>

(***************************************************************************)
(* DiscreteCDF: load and getRandomSample.  Probabilities are integers, in  *)
(* units of 1 / MaxCdfVal.                                                 *)
(***************************************************************************)
nMAXLEN_FULLSEARCH == 16

\* the loop of load: _cCDF[i] = cPDF[i] + _cCDF[i-1]
CdfOf(cPDF) == [i \in DOMAIN cPDF |-> SumRange(cPDF, 0, i + 1)]

\* the histograms of a length: non-negative entries of total at most MaxCdfVal
Histograms(len) ==
  { [i \in 0..(len - 1) |-> Cardinality({ k \in DOMAIN cuts : cuts[k] = i })] :
      cuts \in [1..MaxCdfVal -> 0..len] }

\* the walk through a short histogram from index i on
RECURSIVE FullSearch(_, _, _)
FullSearch(cCDF, r, i) ==
  IF i >= Cardinality(DOMAIN cCDF) THEN Cardinality(DOMAIN cCDF) - 1
  ELSE IF r < cCDF[i] THEN i ELSE FullSearch(cCDF, r, i + 1)

\* the end of the search returning nEnd whatever _cCDF[nStart] is
SearchEndLast(cCDF, r, nStart, nEnd) == nEnd

\* the end of the binary search, when nEnd - nStart <= 1
SearchEnd(cCDF, r, nStart, nEnd) == IF r < cCDF[nStart] THEN nStart ELSE nEnd

\* the while (true) loop of the binary search
RECURSIVE BinarySearch(_, _, _, _)
BinarySearch(cCDF, r, nStart, nEnd) ==
  IF nEnd - nStart <= 1 THEN SearchEnd(cCDF, r, nStart, nEnd)
  ELSE LET nMiddle == (nStart + nEnd) \div 2
       IN IF r < cCDF[nMiddle] THEN BinarySearch(cCDF, r, nStart, nMiddle)
          ELSE BinarySearch(cCDF, r, nMiddle, nEnd)

getRandomSample(cCDF, dRandomNumber) ==
  IF Cardinality(DOMAIN cCDF) < nMAXLEN_FULLSEARCH
  THEN FullSearch(cCDF, dRandomNumber, 0)
  ELSE BinarySearch(cCDF, dRandomNumber, 0, Cardinality(DOMAIN cCDF) - 1)

\* one sample from a loaded histogram
GetRandomSample ==
  /\ ~cdf.called
  /\ \E len \in 1..MaxCdfLen, r \in (0 - 1)..(MaxCdfVal + 1) :
       \E cPDF \in Histograms(len) :
         cdf' = [called |-> TRUE, cCDF |-> CdfOf(cPDF), r |-> r,
                 ret |-> getRandomSample(CdfOf(cPDF), r)]
  /\ UNCHANGED <<kernelVars, cpalsVars, ioVars, launchVars, inpl, tiling, ctor, rpar, als>>

(***************************************************************************)
(* Specifications.                                                         *)
(***************************************************************************)
Init == InitTensor(MaxNnz, MaxRank, TRUE)
Next == FillCompleteOnce \/ MttkrpCoo \/ MttkrpPerm \/ MttkrpRow
Spec == Init /\ [][Next]_vars

\* the three MTTKRP variants on one tensor
SpecMttkrp == Spec

\* the COO MTTKRP alone
NextCoo == MttkrpCoo
SpecCoo == Init /\ [][NextCoo]_vars

\* fillComplete() alone, on every small tensor
InitRowPtr == InitTensor(MaxNnzRow, 1, FALSE)
NextRowPtr == FillComplete
SpecRowPtr == InitRowPtr /\ [][NextRowPtr]_vars

\* the inner product
NextInnerprod == Innerprod
SpecInnerprod == Init /\ [][NextInnerprod]_vars

\* one call of cpals_core
InitCpals == InitTensor(0, 1, FALSE) /\ ~is_cuda /\ u = KtensorOf(siz, 1, 0)
NextCpals == CpalsEnter \/ CpalsModeUpdate \/ CpalsIterEnd \/ CpalsFinish
SpecCpals == InitCpals /\ [][NextCpals]_vars

\* calls of computeResNorm
NextResNorm == ComputeResNorm
SpecResNorm == InitCpals /\ [][NextResNorm]_vars

\* getLineContent called repeatedly on one stream
NextImport == ImportFile
SpecImport == InitCpals /\ [][NextImport]_vars

NextRoundTrip == ExportSptensor \/ ImportExported
SpecRoundTrip == InitCpals /\ [][NextRoundTrip]_vars

\* one run of the performance driver
NextDriver == DriverMain \/ DriverLoad \/ DriverWarmup \/ DriverIter \/ DriverCheck
                \/ DriverCatch \/ DriverExit
SpecDriver == InitCpals /\ [][NextDriver]_vars

\* one launch of mttkrp_kernel under every interleaving of its lanes
InitAtomic == InitTensor(MaxNnz, MaxRank, FALSE) /\ ~is_cuda
NextAtomic ==
  \/ KernelLaunch
  \/ \E i \in DOMAIN values, c \in DOMAIN u.weights : LaneTmp(i, c)
  \/ \E i \in DOMAIN values, c \in DOMAIN u.weights : LaneAdd(i, c)
  \/ KernelReturn
SpecAtomic == InitAtomic /\ [][NextAtomic]_vars

\* one launch of mttkrp_perm_kernel, after fillComplete(), under every
\* interleaving of its row blocks
NextPermPar ==
  \/ FillCompleteOnce
  \/ PermLaunch
  \/ \E w \in DOMAIN blocks : BlockAtomicAdd(w)
  \/ \E w \in DOMAIN blocks : BlockLoad(w)
  \/ \E w \in DOMAIN blocks : BlockStore(w)
  \/ PermReturn
SpecPermPar == Init /\ [][NextPermPar]_vars

\* one launch of the row-indexed kernel, after fillComplete(), under every
\* interleaving of its lanes
InitRowPar == InitTensor(MaxNnz, MaxRank, FALSE) /\ ~is_cuda
NextRowPar ==
  \/ FillCompleteOnce
  \/ RowLaunch
  \/ \E l \in DOMAIN rlanes : RowLaneLoad(l[1], l[2])
  \/ \E l \in DOMAIN rlanes : RowLaneStore(l[1], l[2])
  \/ RowReturn
SpecRowPar == InitRowPar /\ [][NextRowPar]_vars

\* one mttkrp(x, u, n) into u[n], before or after fillComplete()
\* (the call is sequential host code: fillComplete() is not run inside it)
InPlaceFill == inpl.pc = "idle" /\ FillCompleteOnce
NextInPlace == InPlaceFill \/ InPlaceEnter \/ InPlaceKernel
SpecInPlace == InitRowPar /\ [][NextInPlace]_vars

\* cpals_core's loop on the factor data
NextAls == \/ AlsEnter \/ AlsMttkrp \/ AlsUpsilon \/ AlsSolve \/ AlsNorm \/ AlsScale
           \/ AlsGramian \/ AlsModelNorm \/ AlsIterEnd
SpecAls == InitCpals /\ [][NextAls]_vars

\* createRowPtrImpl's loop for one mode under every interleaving
NextRowPtrPar == RowPtrLaunch \/ (\E i \in 0..nnz : RowPtrWrite(i)) \/ RowPtrReturn
SpecRowPtrPar == InitRowPtr /\ [][NextRowPtrPar]_vars

\* the tile dispatch on either build
InitTiling == InitTensor(0, 1, FALSE)
NextTiling == TileDispatch
SpecTiling == InitTiling /\ [][NextTiling]_vars

\* one construction of a Sptensor
NextCtor == Construct
SpecCtor == InitTiling /\ [][NextCtor]_vars

\* one sample of a DiscreteCDF
NextCdf == GetRandomSample
SpecCdf == InitCpals /\ [][NextCdf]_vars

NextLines == OpenStream \/ GetLineContent
SpecLines == InitCpals /\ [][NextLines]_vars

(***************************************************************************)
(* Properties.                                                             *)
(***************************************************************************)
\* product of f[m] over the modes m of S
RECURSIVE ProdOver(_, _)
ProdOver(f, S) ==
  IF S = {} THEN 1
  ELSE LET m == CHOOSE x \in S : TRUE IN f[m] * ProdOver(f, S \ {m})

\* the term of nonzero k in column j: the product of the factor entries of
\* every mode but skip (skip = ndims leaves none out)
KrpTerm(k, j, skip) ==
  ProdOver([m \in DOMAIN siz |-> IF m = skip THEN 1 ELSE u.data[m][subs[k][m]][j]],
           DOMAIN siz)

\* V[i,j] = sum over the nonzeros k with subs[k,n] = i of
\* vals[k] * lambda[j] * prod_{m # n} U_m[subs[k,m], j]
MttkrpFormula(n) ==
  [i \in 0..(siz[n] - 1) |->
     [j \in 0..(ncomponents - 1) |->
        SumRange([k \in 0..(nnz - 1) |->
                    IF subs[k][n] = i
                    THEN values[k] * u.weights[j] * KrpTerm(k, j, n) ELSE 0],
                 0, nnz)]]

\* C1: after the COO mttkrp of mode n on a pre-allocated output, V[i,j] is
\* the sum over the nonzeros k of row i of vals[k]*lambda[j]*prod_{m # n}
\* U_m[subs[k,m],j], whatever the output held before; rows that no nonzero
\* targets are zero
C1_CooMttkrp == last.op = "mttkrp" => v = MttkrpFormula(last.n)

\* C1 witness: a COO mttkrp on an output that held stale values, of a tensor
\* with a duplicated subscript tuple, with a row no nonzero targets and a
\* row that ends nonzero
C1_Witness ==
  /\ last.op = "mttkrp"
  /\ last.dirty
  /\ \E k1, k2 \in DOMAIN values : k1 # k2 /\ subs[k1] = subs[k2]
  /\ \E i \in DOMAIN v : \A k \in DOMAIN values : subs[k][last.n] # i
  /\ \E i \in DOMAIN v : \E j \in DOMAIN v[i] : v[i][j] # 0

\* sum_k vals[k] * sum_j lam[j] * prod_m U_m[subs[k,m], j]
InnerprodFormula(lam) ==
  SumRange([k \in 0..(nnz - 1) |->
              values[k] * SumRange([j \in 0..(ncomponents - 1) |->
                                      lam[j] * KrpTerm(k, j, ndims)],
                                   0, ncomponents)],
           0, nnz)

\* C2: innerprod returns sum_k vals[k] * sum_j lambda[j] * prod_m
\* U_m[subs[k,m],j] for every nnz and rank: every (nonzero, column) pair is
\* counted once over all teams and rank tiles, the padding slots count zero
C2_Innerprod == last.op = "innerprod" => d = InnerprodFormula(lambda)

\* C2 witness: an inner product on the Cuda build whose last row block has
\* padding slots and whose rank needs more than one tile, with d # 0
C2_Witness ==
  /\ last.op = "innerprod"
  /\ is_cuda
  /\ nnz % IpRowBlockSize(IpFacBlockSize(ncomponents)) # 0
  /\ ncomponents > IpFacBlockSize(ncomponents)
  /\ d # 0

\* C3: after fillComplete() the permuted and the row-indexed mttkrp leave
\* the same V as the COO mttkrp of the same tensor, K-tensor and mode
C3_VariantsAgree ==
  (filled /\ last.op \in {"mttkrp_perm", "mttkrp_row"}) => v = mttkrp(last.n, v)

\* C4: after fillComplete(), for every mode dm and row r the nonzeros
\* perm[dm][i] with rowptr[dm][r] <= i < rowptr[dm][r+1] are exactly the
\* nonzeros whose subscript of mode dm is r
C4_RowPtrCorrect ==
  filled =>
    \A dm \in DOMAIN siz : \A r \in 0..(siz[dm] - 1) :
      LET idx == rowptr[dm][r]..(rowptr[dm][r + 1] - 1)
      IN /\ idx \subseteq DOMAIN perm[dm]
         /\ { perm[dm][i] : i \in idx } = { k \in DOMAIN values : subs[k][dm] = r }

\* the rows of mode dm that hold a nonzero
RowsPresent(dm) == { subs[k][dm] : k \in DOMAIN values }

\* C5: after fillComplete(), whatever nnz is, every rowptr[dm] has length
\* siz[dm]+1, starts at 0, ends at nnz and is non-decreasing; the entries up
\* to the smallest present row are 0, those after the largest present row
\* are nnz, and an empty row r has rowptr[dm][r+1] = rowptr[dm][r]
C5_RowPtrShape ==
  filled =>
    \A dm \in DOMAIN siz :
      /\ DOMAIN rowptr[dm] = 0..siz[dm]
      /\ rowptr[dm][0] = 0
      /\ rowptr[dm][siz[dm]] = nnz
      /\ \A r \in 0..(siz[dm] - 1) : rowptr[dm][r] <= rowptr[dm][r + 1]
      /\ \A r \in 0..siz[dm] :
           /\ (\A p \in RowsPresent(dm) : r <= p) /\ RowsPresent(dm) # {}
                => rowptr[dm][r] = 0
           /\ (\A p \in RowsPresent(dm) : r > p) /\ RowsPresent(dm) # {}
                => rowptr[dm][r] = nnz
      /\ \A r \in (0..(siz[dm] - 1)) \ RowsPresent(dm) :
           rowptr[dm][r + 1] = rowptr[dm][r]

\* C6: fillComplete() is idempotent: a call on a tensor that is already
\* filled leaves perm and rowptr element-wise as they were
C6_Idempotent == [][filled => (perm' = perm /\ rowptr' = rowptr)]_vars

\* the preconditions of cpals_core
Preconditions(a) ==
  a.uConsistent /\ a.ndimsMatch /\ a.sizesMatch /\ a.tol > 0 /\ a.maxIters >= 1

\* C7: a call of cpals_core with an inconsistent u, a different number of
\* dimensions, a different mode size, tol <= 0 or maxIters < 1 ends with an
\* error before any outer iteration runs and leaves u unmodified
C7_EagerChecks ==
  (pc # "idle" /\ ~Preconditions(args)) =>
    (pc = "error" /\ ~uTouched /\ completed = 0 /\ steps.mttkrp = 0)

\* the stop rule after outer iteration i
StopAfter(i) ==
  \/ i > 0 /\ Abs(fit - fitold) < args.tol
  \/ args.maxSecs >= 0 /\ elapsed > args.maxSecs
  \/ i = args.maxIters - 1

\* C8: after outer iteration i the loop is left exactly when (i > 0 and
\* |fit_i - fit_{i-1}| < tol) or (maxSecs >= 0 and elapsed > maxSecs) or
\* i = maxIters - 1; it is left only after all N mode updates of the
\* iteration, and never runs more than maxIters iterations
C8_LoopStop ==
  /\ completed <= args.maxIters
  /\ (completed >= 1 /\ ((pc = "loop" /\ mode = 0) \/ pc = "finish")) =>
       /\ (pc = "finish") <=> StopAfter(completed - 1)
       /\ steps.gramian = completed * ndims

\* C8 witness: the loop is left on convergence after a later iteration than
\* the first, with no time limit and before maxIters is reached
C8_Witness ==
  /\ pc = "finish"
  /\ completed >= 2
  /\ completed < args.maxIters
  /\ args.maxSecs < 0
  /\ Abs(fit - fitold) < args.tol

\* C9: on return from a call that met the preconditions, numIters is the
\* number of outer iterations completed and is at most maxIters
C9_NumIters ==
  (pc = "returned" /\ Preconditions(args)) =>
    (numIters = completed /\ numIters <= args.maxIters)

\* C10: when upsilon is singular at a solve step, cpals_core ends with
\* SingularNormalEquations at that step: no column norm and no scaling
\* follow the failed solve, and the call does not return
C10_SingularFails ==
  singular =>
    /\ pc = "error"
    /\ err = "SingularNormalEquations"
    /\ steps.norm = steps.solve
    /\ steps.scale = steps.solve
    /\ steps.gramian = steps.solve

\* C10 witness: a solve step fails on a singular upsilon after earlier solve
\* steps of the call succeeded
C10_Witness ==
  /\ singular
  /\ err = "SingularNormalEquations"
  /\ steps.solve >= 1
  /\ steps.mttkrp = steps.solve + 1

\* C11: with d = xNorm^2 + mNorm^2 - 2*xDotm, computeResNorm returns
\* sqrt(d) when d > 0, returns 0 when d <= 0 and d > -(xDotm*sqrt(eps)*10^3),
\* and raises the error otherwise; what it returns is defined and >= 0
C11_ResidualRule ==
  (rn.called /\ ~rn.nan) =>
    /\ rn.out.d = (rn.xNorm * rn.xNorm) + (rn.mNorm * rn.mNorm) - (2 * rn.xDotm)
    /\ rn.out.d > 0 => rn.out.kind = "sqrt"
    /\ (rn.out.d <= 0 /\ AboveSmallNegThresh(rn.out.d, rn.xDotm)) => rn.out.kind = "zero"
    /\ (rn.out.d <= 0 /\ ~AboveSmallNegThresh(rn.out.d, rn.xDotm)) => rn.out.kind = "error"
    /\ rn.out.kind = "sqrt" => rn.out.d >= 0

\* the number of elements the caller must allocate: (maxIters / perfIter) + 2
PerfAllocated == (args.maxIters \div args.perfIter) + 2

\* the indices of perfInfo that hold a recorded entry
PerfRecorded == { i \in DOMAIN perfInfo : perfInfo[i].at # "init" }

\* C12: with perfIter > 0, cpals_core records an entry for the starting
\* point (nIter = 0), one after every outer iteration whose 1-based number is
\* a multiple of perfIter and one at finish, at consecutive indices from 0,
\* and accesses no index >= (maxIters / perfIter) + 2
C12_PerfEntries ==
  /\ (pc # "idle" /\ args.perfIter > 0) =>
       DOMAIN perfInfo \subseteq 0..(PerfAllocated - 1)
  /\ (pc \in {"loop", "finish", "returned"} /\ args.perfIter > 0) =>
    LET due == completed \div args.perfIter
    IN /\ perfInfo[0] = [nIter |-> 0, at |-> "start"]
       /\ \A j \in 1..due : perfInfo[j] = [nIter |-> j * args.perfIter, at |-> "iter"]
       /\ pc # "returned" => PerfRecorded = 0..due
       /\ pc = "returned" => /\ PerfRecorded = 0..(due + 1)
                             /\ perfInfo[due + 1].at = "finish"

\* C12 witness: a call with perfIter = 2 has returned after 3 outer
\* iterations with every allocated element holding a recorded entry
C12_Witness ==
  /\ pc = "returned"
  /\ args.perfIter = 2
  /\ completed = 3
  /\ PerfRecorded = 0..(PerfAllocated - 1)
  /\ perfInfo[1].nIter = 2

\* C13: with perfIter = 0 cpals_core accesses no element of perfInfo,
\* whether perfInfo is NULL or not
C13_NoPerfAccess == (pc # "idle" /\ args.perfIter = 0) => DOMAIN perfInfo = {}

\* the physical lines of a text from position pos: the runs of characters
\* between line feeds, the run after the last line feed included when it
\* is not empty
RECURSIVE PhysicalLines(_, _)
PhysicalLines(chars, pos) ==
  IF pos > Len(chars) THEN << >>
  ELSE LET feeds == { k \in pos..Len(chars) : chars[k] = "LF" }
       IN IF feeds = {} THEN << SubSeq(chars, pos, Len(chars)) >>
          ELSE LET k == CHOOSE x \in feeds : \A y \in feeds : x <= y
               IN << SubSeq(chars, pos, k - 1) >> \o PhysicalLines(chars, k + 1)

\* a line without its trailing carriage return and without the blanks and
\* tabs at its two ends
RECURSIVE Stripped(_)
Stripped(line) ==
  IF line = << >> THEN line
  ELSE IF Head(line) \in {"SP", "TAB"} THEN Stripped(Tail(line))
  ELSE IF line[Len(line)] \in {"SP", "TAB"} THEN Stripped(SubSeq(line, 1, Len(line) - 1))
  ELSE line

WithoutCR(line) ==
  IF line # << >> /\ line[Len(line)] = "CR" THEN SubSeq(line, 1, Len(line) - 1) ELSE line

\* the lines with content: not empty and not a comment
RECURSIVE ContentLines(_)
ContentLines(lines) ==
  IF lines = << >> THEN << >>
  ELSE LET t == Stripped(WithoutCR(Head(lines)))
       IN (IF t = << >> \/ (Len(t) >= 2 /\ SubSeq(t, 1, 2) = <<"/", "/">>)
           THEN << >> ELSE << t >>) \o ContentLines(Tail(lines))

\* the number of line feeds among chars[lo..hi-1]
FeedsBetween(chars, lo, hi) == Cardinality({ k \in lo..(hi - 1) : chars[k] = "LF" })

\* C18: successive calls of getLineContent return, in order and once each,
\* the lines of the stream that are neither empty nor comments, the last
\* line included; a call returns 0 only when no such line remains, and
\* otherwise the number of physical lines it consumed
C18_LineContent ==
  fIn.open =>
    LET want == ContentLines(PhysicalLines(fIn.chars, 1))
        n == Len(content.rets)
    IN \A k \in 1..n :
         /\ content.rets[k] >= 0
         /\ content.rets[k] = 0 => k = Len(want) + 1
         /\ content.rets[k] > 0 =>
              /\ k <= Len(want)
              /\ content.strs[k] = want[k]
              /\ content.rets[k] =
                   FeedsBetween(fIn.chars, content.from[k],
                                IF k < n THEN content.from[k + 1] ELSE fIn.pos)

\* the file of the last import begins with a header line / with a nonzero
HeaderRead == imported.called /\ imported.file.lines # << >>
                /\ imported.file.lines[1][1].w = "sptensor"
HeaderlessRead == imported.called /\ imported.file.lines # << >>
                    /\ imported.file.lines[1][1].w # "sptensor"

\* the data lines the last import stored, and the subscripts they give
\* under the offset o
StoredLines ==
  LET dl == Delivered(imported.file)
  IN IF HeaderRead THEN SubSeq(dl, 5, Len(dl)) ELSE dl
SubsUnder(o) ==
  [k \in DOMAIN StoredLines |->
     [i \in 1..(Len(StoredLines[k]) - 1) |-> Wrap(StoredLines[k][i].n - o)]]

\* C14: a header line "sptensor" without an index tag makes the import
\* read the subscripts as zero-based whatever index_base was passed, the
\* tag indices-start-at-one gives offset 1, the tag indices-start-at-zero
\* offset 0, and index_base is the offset of a headerless file only.
C14_HeaderOffset ==
  (imported.called /\ imported.out.ok) =>
    LET first == imported.file.lines[1]
        expected == IF first[1].w # "sptensor" THEN imported.index_base
                    ELSE IF Len(first) = 1 THEN 0
                    ELSE IF first[2].w = "indices-start-at-one" THEN 1 ELSE 0
    IN /\ imported.out.offset = expected
       /\ imported.out.subs = SubsUnder(expected)

\* C15: an import of a file with a header never stores a subscript that
\* is not below the declared size of its mode: a data line with such a
\* subscript, or with one below the index base, makes the import fail.
C15_HeaderSubsInRange ==
  HeaderRead =>
    /\ imported.out.ok =>
          \A k \in DOMAIN imported.out.subs : \A i \in DOMAIN imported.out.dims :
            imported.out.subs[k][i] < imported.out.dims[i]
    /\ (\E k \in DOMAIN StoredLines : \E i \in 1..(Len(StoredLines[k]) - 1) :
          StoredLines[k][i].n < imported.out.offset) => ~imported.out.ok

\* the largest element of a non-empty set of numbers
MaxOf(S) == CHOOSE x \in S : \A y \in S : y <= x

\* C17: a file whose first token is not sptensor is read as headerless:
\* N is the number of fields of the first line minus one, nnz the number
\* of content lines, the offset is index_base, a later line with another
\* number of fields is an error, size[d] = 1 + max_k subs[k,d] and every
\* stored subscript is below the size of its mode.
C17_Headerless ==
  HeaderlessRead =>
    LET lines == imported.file.lines
        N == Len(lines[1]) - 1
        out == imported.out
    IN IF \E k \in DOMAIN lines : Len(lines[k]) # N + 1 THEN ~out.ok
       ELSE /\ out.ok
            /\ Len(out.dims) = N
            /\ Len(out.subs) = Len(lines)
            /\ out.subs = [k \in DOMAIN lines |->
                             [i \in 1..N |-> Wrap(lines[k][i].n - imported.index_base)]]
            /\ \A i \in 1..N :
                 out.dims[i] = 1 + MaxOf({ out.subs[k][i] : k \in DOMAIN out.subs })
            /\ \A k \in DOMAIN out.subs : \A i \in 1..N : out.subs[k][i] < out.dims[i]

\* C16: importing the file export_sptensor wrote gives back the number of
\* modes, the mode sizes, the number of nonzeros, their order and their
\* subscripts, for bStartAtZero = true and for bStartAtZero = false.
C16_RoundTrip ==
  (exported.called /\ imported.called /\ imported.file = exported.file) =>
    /\ imported.out.ok
    /\ imported.out.dims = exported.X.siz
    /\ Len(imported.out.subs) = Len(exported.X.subs)
    /\ imported.out.subs = exported.X.subs
    /\ imported.out.vals = exported.X.values

\* C19: the exit code of the MTTKRP performance driver is 0 exactly when
\* --help was given or the run completed without an error: a failure to
\* read or to generate the tensor gives a non-zero exit code.
C19_ExitCode ==
  drv.pc = "exited" => (drv.exit = 0 <=> (drv.help \/ ~drv.failed))

\* C20: whatever the interleaving of the lanes of the COO kernel, when it
\* returns V[i,j] is the sum of the contributions of all nonzeros k with
\* subs[k,n] = i: none is lost, none is applied twice.
C20_AtomicScatterAdd ==
  kern.pc = "returned" => v = MttkrpFormula(kern.n)

\* C20 witness: the kernel has returned after two lanes of different
\* nonzeros with the same subscript tuple had both computed a nonzero tmp
\* for the same element of v before either had added it
C20_Witness ==
  /\ kern.pc = "returned"
  /\ \E i1, i2 \in DOMAIN values : \E c \in DOMAIN u.weights :
       /\ i1 # i2
       /\ subs[i1] = subs[i2]
       /\ lanes[<<i1, c>>].seen = 0 /\ lanes[<<i2, c>>].seen = 0
       /\ lanes[<<i1, c>>].tmp # 0 /\ lanes[<<i2, c>>].tmp # 0
       /\ v[subs[i1][kern.n]][c] = lanes[<<i1, c>>].tmp + lanes[<<i2, c>>].tmp

\* all flushes of team member w, made and still to make
FlushesOf(w) == blocks[w].done \o blocks[w].todo

\* C21: a row of V that a block flushes with a plain add is touched by no
\* other block of the launch (so every row that two blocks touch is
\* updated by atomic adds only), and whatever the interleaving of the
\* blocks no update is lost: at the return V is the MTTKRP.
C21_PlainRowsExclusive ==
  /\ pk.pc # "idle" =>
       \A w1, w2 \in DOMAIN blocks :
         \A k1 \in DOMAIN FlushesOf(w1), k2 \in DOMAIN FlushesOf(w2) :
           (w1 # w2 /\ ~FlushesOf(w1)[k1].atomic) =>
             FlushesOf(w1)[k1].row # FlushesOf(w2)[k2].row
  /\ pk.pc = "returned" => v = MttkrpFormula(pk.n)

\* C21 witness: the kernel has returned after two blocks flushed the same
\* row with atomic adds and one of them flushed another row with a plain add
C21_Witness ==
  /\ pk.pc = "returned"
  /\ \E w1, w2 \in DOMAIN blocks :
       /\ w1 # w2
       /\ \E k1 \in DOMAIN blocks[w1].done, k2 \in DOMAIN blocks[w2].done :
            /\ blocks[w1].done[k1].row = blocks[w2].done[k2].row
            /\ blocks[w1].done[k1].atomic /\ blocks[w2].done[k2].atomic
       /\ \E k \in DOMAIN blocks[w1].done : ~blocks[w1].done[k].atomic
  /\ \E i \in DOMAIN v : \E j \in DOMAIN v[i] : v[i][j] # 0

\* the flushes of team member w for the tile that begins at column j
TileFlushes(w, j) == SelectSeq(FlushesOf(w), LAMBDA f : f.j = j)

\* what the nonzeros of the block of team member w with mode-n subscript
\* row add to column c
BlockRowSum(w, row, c) ==
  LET i_block == PermIBlock(w, PermTeamSize(PermVS(ncomponents)))
  IN SumRange([ii \in 0..(PermRowBlockSize - 1) |->
                 IF i_block + ii < nnz /\ subs[perm[pk.n][i_block + ii]][pk.n] = row
                 THEN TimesRows(values[perm[pk.n][i_block + ii]] * u.weights[c],
                                perm[pk.n][i_block + ii], c, pk.n, 0)
                 ELSE 0],
              0, PermRowBlockSize)

\* C22: in every row block, the final partial one included, the flush of
\* the first distinct row and the flush of the last distinct row are
\* atomic adds and only the rows strictly between them are flushed with a
\* plain add; the accumulator is cleared after each flush, so each flush
\* adds the sum of its own row only.
C22_FirstLastAtomic ==
  pk.pc # "idle" =>
    \A w \in DOMAIN blocks : \A f \in { FlushesOf(w)[k] : k \in DOMAIN FlushesOf(w) } :
      LET tile == TileFlushes(w, f.j)
      IN /\ f.atomic <=> (f.row = tile[1].row \/ f.row = tile[Len(tile)].row)
         /\ \A jj \in 0..(f.nj - 1) : f.val[jj] = BlockRowSum(w, f.row, f.j + jj)

\* C23: in the row-indexed kernel the member of row r writes only V[r,:],
\* every entry of V is written by at most one lane, a row with
\* rowptr[r] = rowptr[r+1] is not written at all, and so the plain adds do
\* not race: at the return V is the MTTKRP.
C23_RowExclusive ==
  /\ \A l \in DOMAIN rlanes :
       /\ rlanes[l].k = l[1]
       /\ rowptr[rk.n][rlanes[l].k] # rowptr[rk.n][rlanes[l].k + 1]
       /\ \A l2 \in DOMAIN rlanes :
            (rlanes[l].k = rlanes[l2].k /\ l[2] = l2[2]) => l = l2
  /\ rk.pc = "returned" => v = MttkrpFormula(rk.n)

\* C24: an MTTKRP for mode n changes only its output: the tensor with its
\* perm and rowptr, the weights and every factor matrix other than U_n are
\* as before, and because no kernel reads U_n the call whose output is
\* U_n's own storage leaves in U_n what it leaves in a separate output.
C24_OnlyVChanges ==
  inpl.pc = "done" =>
    /\ <<siz, subs, values, perm, rowptr>> = inpl.x0
    /\ u.weights = inpl.u0.weights
    /\ \A m \in DOMAIN siz : m # inpl.n => u.data[m] = inpl.u0.data[m]
    /\ u.data[inpl.n] = inpl.ref

\* C25: after the norm step of outer iteration 0 lambda[j] is the L2 norm of
\* column j of the solved U_n, without a floor; after the norm step of every
\* later outer iteration lambda[j] = max(1, max_i |U_n[i,j]|), so that
\* lambda[j] >= 1 and the scaling of U_n does not divide by zero.
C25_LambdaNorms ==
  /\ als.pc = "scale" =>
       \A j \in DOMAIN als.lam :
         LET col == als.U[als.n].cols[j]
         IN IF als.numIters = 0
            THEN als.lam[j] = SumSq(col)
            ELSE /\ als.lam[j] = Max(1, MaxAbs(col)) * Max(1, MaxAbs(col))
                 /\ als.lam[j] >= 1
  /\ (als.pc = "error" /\ als.err = "divide-by-zero") => als.numIters = 0

\* a later outer iteration whose solved U_n has a zero column, floored to 1,
\* and a column of largest entry 2
C25_Witness ==
  /\ als.pc = "gramian"
  /\ als.numIters >= 1
  /\ \E j, k \in DOMAIN als.lam :
       /\ MaxAbs(als.U[als.n].cols[j]) = 0 /\ als.lam[j] = 1
       /\ MaxAbs(als.U[als.n].cols[k]) = 2 /\ als.lam[k] = 4

\* the Gramians multiplied into upsilon are those of the modes in idxs, each
\* once, each computed and equal to U_m^T U_m for U_m as it is now
FreshFactors(idxs) ==
  /\ Len(als.upsilon) = Cardinality(idxs)
  /\ { als.upsilon[i].idx : i \in DOMAIN als.upsilon } = idxs
  /\ \A i \in DOMAIN als.upsilon :
       /\ als.upsilon[i].g.init
       /\ als.upsilon[i].g = gramian(als.U[als.upsilon[i].idx])

\* C26: every Gramian multiplied into Upsilon for mode n, in any outer
\* iteration, is Gamma_m = U_m^T U_m of the current U_m, for all m # n; the
\* model norm after the mode loop multiplies Upsilon as left by mode N-1 by
\* Gamma_{N-1}, all of them current; Gamma_0 is not read before it is computed.
C26_GramiansFresh ==
  /\ als.pc \in {"solve", "norm", "scale", "gramian"} =>
       FreshFactors((0..(als.nd - 1)) \ {als.n})
  /\ als.pc = "fit" =>
       /\ FreshFactors(0..(als.nd - 1))
       /\ als.upsilon[als.nd].idx = als.nd - 1
  /\ als.pc # "idle" => \A i \in DOMAIN als.upsilon : als.upsilon[i].g.init

\* the model norm of the second outer iteration of a two-mode problem
C26_Witness ==
  /\ als.pc = "fit"
  /\ als.numIters = 1
  /\ als.nd = 2
  /\ als.gamma[0] # als.gamma[1]
  /\ als.gamma[1] # gramian(Unscaled(als.U[1].cols))

\* C27: for nnz >= 1 and the permutation sorted by the mode's subscript, no
\* entry of rowptr_n is written by two loop indices of createRowPtrImpl, and
\* when all indices have run the entries written are exactly 0..size, each
\* once, with the values the loop gives when run in index order.
C27_RowPtrWritesPartition ==
  (rpar.pc # "idle" /\ nnz >= 1) =>
    /\ \A i, i2 \in DOMAIN rpar.todo :
         i # i2 =>
           (DOMAIN createRowPtrBody(<< >>, rpar.perm, rpar.n, i, 0))
             \cap (DOMAIN createRowPtrBody(<< >>, rpar.perm, rpar.n, i2, 0)) = {}
    /\ \A k \in DOMAIN rpar.count : rpar.count[k] <= 1
    /\ rpar.pc = "returned" =>
         /\ DOMAIN rpar.rp = 0..siz[rpar.n]
         /\ \A k \in DOMAIN rpar.count : rpar.count[k] = 1
         /\ rpar.rp = createRowPtrLoop(<< >>, rpar.perm, rpar.n, 0, nnz + 1, 0)

\* a finished loop in which three indices have written, the middle one a
\* range that skips an empty row
C27_Witness ==
  /\ rpar.pc = "returned"
  /\ nnz >= 2
  /\ \E i \in 1..(nnz - 1) :
       Cardinality(DOMAIN createRowPtrBody(<< >>, rpar.perm, rpar.n, i, 0)) >= 2

\* the columns the calls of run cover, as a sequence
RECURSIVE ColumnsOf(_, _)
ColumnsOf(runs, k) ==
  IF k > Len(runs) THEN << >>
  ELSE [c \in 1..runs[k].nj |-> runs[k].j + c - 1] \o ColumnsOf(runs, k + 1)

\* C28: for every rank R >= 1 and each of the three dispatchers, the tile
\* loop with the selected tile T processes the columns 0, ..., R-1 each once:
\* full tiles of length T, then at most one leftover tile, whose runtime
\* length is between 1 and T-1.
C28_RankTiling ==
  tiling.called =>
    /\ ColumnsOf(tiling.runs, 1) = [c \in 1..tiling.nc |-> c - 1]
    /\ \A k \in DOMAIN tiling.runs :
         \/ tiling.runs[k].tmpl = tiling.tile /\ tiling.runs[k].nj = tiling.tile
         \/ /\ tiling.runs[k].tmpl = 0
            /\ k = Len(tiling.runs)
            /\ tiling.runs[k].nj >= 1
            /\ tiling.runs[k].nj <= tiling.tile - 1

\* the permuted MTTKRP on the largest tile with full tiles and a leftover
C28_Witness ==
  /\ tiling.called
  /\ tiling.kernel = "mttkrp_perm"
  /\ tiling.tile = 128
  /\ Len(tiling.runs) = 2
  /\ tiling.runs[2].tmpl = 0

\* C29: each constructor allocates subs with nnz x ndims entries, every
\* write subs(i,j), i < nnz, j < ndims, is inside the allocation, and
\* afterwards subscript(i,j) is the zero-based j-th subscript of nonzero i
\* of the input, also when nnz # ndims.
C29_SubsShape ==
  ctor.called =>
    /\ ctor.d0 = ctor.nz
    /\ ctor.d1 = ctor.nd
    /\ ctor.oob = {}
    /\ \A i \in 0..(ctor.nz - 1), j \in 0..(ctor.nd - 1) :
         /\ <<i, j>> \in DOMAIN ctor.subs
         /\ ctor.subs[<<i, j>>] =
              (IF ctor.which = "real" THEN ctor.input[i + j * ctor.nz] - 1
               ELSE ctor.input[i * ctor.nd + j])

\* the indices i with r < a[i]
Above(a, r) == { i \in DOMAIN a : r < a[i] }

\* C30: on a non-empty non-decreasing CDF array getRandomSample returns the
\* smallest index i with r < cdf[i], or size-1 when there is none; for an
\* array of length >= 16 the binary search returns the index the linear
\* scan returns on the same array.
C30_SampleIndex ==
  cdf.called =>
    /\ cdf.ret \in DOMAIN cdf.cCDF
    /\ IF Above(cdf.cCDF, cdf.r) = {}
       THEN cdf.ret = Cardinality(DOMAIN cdf.cCDF) - 1
       ELSE cdf.ret \in Above(cdf.cCDF, cdf.r)
            /\ \A i \in Above(cdf.cCDF, cdf.r) : cdf.ret <= i
    /\ cdf.ret = FullSearch(cdf.cCDF, cdf.r, 0)

\* a binary search that ends inside the array, past a run of equal entries
C30_Witness ==
  /\ cdf.called
  /\ Cardinality(DOMAIN cdf.cCDF) >= nMAXLEN_FULLSEARCH
  /\ cdf.ret > 2
  /\ cdf.ret < Cardinality(DOMAIN cdf.cCDF) - 2
  /\ cdf.cCDF[cdf.ret - 1] = cdf.cCDF[cdf.ret - 2]
  /\ cdf.cCDF[cdf.ret + 1] = cdf.cCDF[cdf.ret]

====
